---- MODULE Spec2Model ----
(***************************************************************************)
(* Model of the object catalog of UEDP_JH (Core/src/backend): the two-tier *)
(* DashMap cache of ObjectManager, the outer-chain walk that composes full *)
(* names, the catalog reset of parse_guobject_array and the query commands *)
(* that read or extend the catalog.                                        *)
(*                                                                         *)
(* Strings are sequences of one-character strings, so that contains, len   *)
(* and format! are computed and not assumed.  Target memory is a map from  *)
(* 4-byte aligned addresses to 32-bit cells; a read fails when a cell it   *)
(* needs is not mapped.                                                    *)
(***************************************************************************)
EXTENDS Integers, Sequences, FiniteSets, TLC

(***************************************************************************)
(* Bounds of the model.                                                    *)
(***************************************************************************)
MaxCalls == 2
MaxParses == 1
MaxQueries == 1

(***************************************************************************)
(* Integer widths.  A cell holds the i32 reading of its four bytes.  TLC's  *)
(* integers are 32 bit, so FarAddress stands for every address of 2^31 or  *)
(* more; the modelled target maps no such address.                         *)
(***************************************************************************)
FarAddress == 2147483647

\* usize::wrapping_add
WrapAdd(a, b) == IF a = FarAddress THEN FarAddress ELSE a + b

\* Option<T>
None == <<>>
Some(v) == <<v>>
\* .unwrap_or(0)
OrZero(o) == IF o = None THEN 0 ELSE o[1]

(***************************************************************************)
(* UEOffset::default()                                                     *)
(***************************************************************************)
OffId == 12
OffClass == 16
OffFNameIndex == 24
OffOuter == 32
OffMemberTypeOffset == 8
OffMemberType == 0
OffMemberFNameIndex == 32

\* the null-pointer threshold used by try_save_object and resolve_full_name
MinPointer == 65536
\* max_concat of resolve_full_name
max_concat == 10
\* the length above which a type name is rejected
MaxTypeLen == 100
\* depth and max_depth passed by every caller of try_save_object
CallDepth == 0
CallMaxDepth == 5

(***************************************************************************)
(* Strings.                                                                *)
(***************************************************************************)
RECURSIVE Rep(_, _)
Rep(c, n) == IF n = 0 THEN <<>> ELSE <<c>> \o Rep(c, n - 1)

\* str::contains
Contains(s, sub) ==
    \E i \in 0..(Len(s) - Len(sub)) : SubSeq(s, i + 1, i + Len(sub)) = sub

\* str::ends_with
EndsWith(s, suf) ==
    /\ Len(suf) <= Len(s)
    /\ SubSeq(s, Len(s) - Len(suf) + 1, Len(s)) = suf

\* number of places at which sub occurs in s
Occurrences(s, sub) ==
    Cardinality({i \in 0..(Len(s) - Len(sub)) : SubSeq(s, i + 1, i + Len(sub)) = sub})

\* str::starts_with
StartsWith(s, pre) ==
    /\ Len(pre) <= Len(s)
    /\ SubSeq(s, 1, Len(pre)) = pre

\* str::find of one character in s[from..]: the first position, or 0
Find(s, c, from) ==
    IF \E i \in from..Len(s) : s[i] = c
    THEN CHOOSE i \in from..Len(s) : s[i] = c /\ \A j \in from..(i - 1) : s[j] # c
    ELSE 0

\* the characters of the modelled names in byte order, for str::cmp
Alphabet ==
    <<".", "/", ":",
      "A","B","C","D","E","F","G","H","I","J","K","L","M",
      "N","O","P","Q","R","S","T","U","V","W","X","Y","Z", "_",
      "a","b","c","d","e","f","g","h","i","j","k","l","m",
      "n","o","p","q","r","s","t","u","v","w","x","y","z">>

Byte(c) == CHOOSE i \in 1..Len(Alphabet) : Alphabet[i] = c

\* a < b in the byte-wise order of str::cmp
RECURSIVE StrLess(_, _)
StrLess(a, b) ==
    IF b = <<>> THEN FALSE
    ELSE IF a = <<>> THEN TRUE
    ELSE IF Byte(Head(a)) # Byte(Head(b)) THEN Byte(Head(a)) < Byte(Head(b))
    ELSE StrLess(Tail(a), Tail(b))

sProperty == <<"P","r","o","p","e","r","t","y">>
sFunction == <<"F","u","n","c","t","i","o","n">>
sNone == <<"N","o","n","e">>
sInvalidName == <<"I","n","v","a","l","i","d","N","a","m","e">>
sClass == <<"C","l","a","s","s">>
sPackage == <<"P","a","c","k","a","g","e">>
sObjectProperty == <<"O","b","j","e","c","t">> \o sProperty
sScriptEngine == <<"/","S","c","r","i","p","t","/","E","n","g","i","n","e">>
sActor == <<"A","c","t","o","r">>
sOwner == <<"O","w","n","e","r">>
sSelf == <<"S","e","l","f">>
sScriptPrefix == <<"/","S","c","r","i","p","t","/">>
sEnginePrefix == <<"/","E","n","g","i","n","e","/">>
sGamePrefix == <<"/","G","a","m","e","/">>
sDot == <<".">>
sColon == <<":">>
\* a type name of MaxTypeLen + 1 characters and one of exactly MaxTypeLen
sLongType == Rep("T", MaxTypeLen + 1)
sEdgeType == Rep("U", MaxTypeLen)

(***************************************************************************)
(* The name pool as the catalog sees it: get_name(id).unwrap_or_default()  *)
(* over a pool whose string offset is committed.  Id 131328 is the FName   *)
(* index stored in the property node below (the cell at +0x20 of a         *)
(* property node is both its name index and the low half of the pointer    *)
(* that get_basic_info_1 reads as its outer).                              *)
(***************************************************************************)
NameTable ==
    (1 :> sNone) @@ (2 :> sClass) @@ (3 :> sPackage) @@ (4 :> sObjectProperty)
    @@ (5 :> sFunction) @@ (6 :> sLongType) @@ (7 :> sEdgeType)
    @@ (10 :> sScriptEngine) @@ (11 :> sActor)
    @@ (12 :> <<"a">>) @@ (13 :> <<"b">>) @@ (14 :> <<"c">>)
    @@ (15 :> sSelf) @@ (16 :> <<"k">>) @@ (17 :> <<"l">>) @@ (18 :> <<"m">>)
    @@ (19 :> <<"t">>) @@ (20 :> <<"z">>) @@ (21 :> <<"n">>) @@ (22 :> <<"f">>)
    @@ (131328 :> sOwner)

GetNameOrDefault(id) == IF id \in DOMAIN NameTable THEN NameTable[id] ELSE <<>>

(***************************************************************************)
(* Target memory.                                                          *)
(***************************************************************************)
\* a UObject header: vtable, flags, index, class, name, outer
UObjectCells(a, id, class, name_id, outer) ==
    (a :> 1) @@ (a + 4 :> 0) @@ (a + 8 :> 0) @@ (a + 12 :> id)
    @@ (a + 16 :> class) @@ (a + 20 :> 0)
    @@ (a + 24 :> name_id) @@ (a + 28 :> 0)
    @@ (a + 32 :> outer) @@ (a + 36 :> 0)

\* a property node: vtable, field class, owner, next, name (read as outer too)
FFieldCells(a, field_class, name_id) ==
    (a :> 1) @@ (a + 4 :> 0)
    @@ (a + 8 :> field_class) @@ (a + 12 :> 0)
    @@ (a + 16 :> 0) @@ (a + 20 :> 0) @@ (a + 24 :> 0) @@ (a + 28 :> 0)
    @@ (a + 32 :> name_id) @@ (a + 36 :> 0)

\* a field class: its first cell is the name index of the type
FFieldClassCells(a, type_id) == (a :> type_id) @@ (a + 4 :> 0)

\* class objects
\* where the fixture's classes and objects lie in the target
TargetAddresses ==
    [ClsClass |-> 196608,
     ClsPackage |-> 196864,
     ClsFunction |-> 197120,
     ClsLong |-> 197376,
     ClsEdge |-> 197632,
     ClsNoName |-> 197888,
     FcObjectProperty |-> 200704,
     ObjP |-> 131072,
     ObjA |-> 131328,
     ObjX |-> 131584,
     CycA |-> 135168,
     CycB |-> 135424,
     CycC |-> 135680,
     ObjSelf |-> 139264,
     ObjNone |-> 139520,
     ObjNoName |-> 139776,
     ObjK |-> 143360,
     ObjL |-> 143616,
     ObjM |-> 143872,
     ObjT |-> 144128,
     ObjZ |-> 144384,
     ObjF |-> 144640,
     ObjLow |-> 32768,
     ObjUnmapped |-> 147456]

ClsClass == TargetAddresses.ClsClass
ClsPackage == TargetAddresses.ClsPackage
ClsFunction == TargetAddresses.ClsFunction
ClsLong == TargetAddresses.ClsLong
ClsEdge == TargetAddresses.ClsEdge
ClsNoName == TargetAddresses.ClsNoName
FcObjectProperty == TargetAddresses.FcObjectProperty

\* objects
ObjP == TargetAddresses.ObjP
ObjA == TargetAddresses.ObjA
ObjX == TargetAddresses.ObjX
CycA == TargetAddresses.CycA
CycB == TargetAddresses.CycB
CycC == TargetAddresses.CycC
ObjSelf == TargetAddresses.ObjSelf
ObjNone == TargetAddresses.ObjNone
ObjNoName == TargetAddresses.ObjNoName
ObjK == TargetAddresses.ObjK
ObjL == TargetAddresses.ObjL
ObjM == TargetAddresses.ObjM
ObjT == TargetAddresses.ObjT
ObjZ == TargetAddresses.ObjZ
ObjF == TargetAddresses.ObjF
ObjLow == TargetAddresses.ObjLow
ObjUnmapped == TargetAddresses.ObjUnmapped

TargetMem ==
    UObjectCells(ClsClass, 101, ClsClass, 2, 0)
    @@ UObjectCells(ClsPackage, 102, ClsClass, 3, 0)
    @@ UObjectCells(ClsFunction, 103, ClsClass, 5, 0)
    @@ UObjectCells(ClsLong, 104, ClsClass, 6, 0)
    @@ UObjectCells(ClsEdge, 105, ClsClass, 7, 0)
    @@ UObjectCells(ClsNoName, 106, ClsClass, 0, 0)
    @@ FFieldClassCells(FcObjectProperty, 4)
    @@ UObjectCells(ObjP, 1, ClsPackage, 10, 0)
    @@ UObjectCells(ObjA, 2, ClsClass, 11, ObjP)
    @@ FFieldCells(ObjX, FcObjectProperty, ObjA)
    @@ UObjectCells(CycA, 3, ClsClass, 12, CycB)
    @@ UObjectCells(CycB, 4, ClsClass, 13, CycC)
    @@ UObjectCells(CycC, 5, ClsClass, 14, CycA)
    @@ UObjectCells(ObjSelf, 6, ClsClass, 15, ObjSelf)
    @@ UObjectCells(ObjNone, 7, ClsClass, 1, 0)
    @@ UObjectCells(ObjNoName, 8, ClsClass, 0, 0)
    @@ UObjectCells(ObjK, 9, ClsClass, 16, ObjL)
    @@ UObjectCells(ObjL, 10, ClsLong, 17, 0)
    @@ UObjectCells(ObjM, -5, ClsEdge, 18, 0)
    @@ UObjectCells(ObjT, 12, ClsNoName, 19, 0)
    @@ UObjectCells(ObjZ, 13, ClsClass, 20, ObjNone)
    @@ UObjectCells(ObjLow, 14, ClsClass, 21, 0)
    @@ UObjectCells(ObjF, 15, ClsFunction, 22, ObjA)

\* Memory::try_read::<i32>: the cell, or None
try_read(a) == IF a \in DOMAIN TargetMem THEN Some(TargetMem[a]) ELSE None

\* Memory::try_read_pointer: 8 bytes, both cells must be readable
try_read_pointer(a) ==
    IF a \in DOMAIN TargetMem /\ (a + 4) \in DOMAIN TargetMem
    THEN IF TargetMem[a + 4] = 0 /\ TargetMem[a] >= 0
         THEN Some(TargetMem[a])
         ELSE Some(FarAddress)
    ELSE None

(***************************************************************************)
(* ObjectData and the two basic-info paths.                                *)
(***************************************************************************)
\* ObjectData::empty()
ObjectData_empty ==
    [address |-> 0, id |-> 0, name |-> <<>>, type_name |-> <<>>,
     full_name |-> <<>>, outer |-> 0, class_ptr |-> 0]

\* get_basic_info_1: the property-style path.  reads counts the target reads.
get_basic_info_1(address, obj) ==
    LET id == OrZero(try_read(WrapAdd(address, OffId)))
        outer == OrZero(try_read_pointer(WrapAdd(address, OffOuter)))
        type_ptr == OrZero(try_read_pointer(WrapAdd(address, OffMemberTypeOffset)))
        type_id == try_read(WrapAdd(type_ptr, OffMemberType))
        o1 == [obj EXCEPT !.id = id, !.outer = outer]
    IN  IF type_id = None
        THEN [ok |-> FALSE, obj |-> o1, reads |-> 4]
        ELSE LET type_name == GetNameOrDefault(type_id[1])
                 o2 == [o1 EXCEPT !.type_name = type_name]
             IN  IF type_name = <<>>
                 THEN [ok |-> FALSE, obj |-> o2, reads |-> 5]
                 ELSE LET name_id == OrZero(try_read(WrapAdd(address, OffMemberFNameIndex)))
                          name == GetNameOrDefault(name_id)
                          o3 == [o2 EXCEPT !.name = name]
                      IN  IF name = <<>>
                          THEN [ok |-> (type_name # <<>>), obj |-> o3, reads |-> 7]
                          ELSE [ok |-> TRUE, obj |-> o3, reads |-> 7]

\* get_basic_info_2: the standard path through the class pointer
get_basic_info_2(address, obj) ==
    LET class_ptr == OrZero(try_read_pointer(WrapAdd(address, OffClass)))
        type_id == try_read(WrapAdd(class_ptr, OffFNameIndex))
        o1 == [obj EXCEPT !.class_ptr = class_ptr]
    IN  IF type_id = None
        THEN [ok |-> FALSE, obj |-> o1, reads |-> 2]
        ELSE LET type_name == GetNameOrDefault(type_id[1])
                 name_id == OrZero(try_read(WrapAdd(address, OffFNameIndex)))
                 name == GetNameOrDefault(name_id)
                 id == OrZero(try_read(WrapAdd(address, OffId)))
                 outer == OrZero(try_read_pointer(WrapAdd(address, OffOuter)))
             IN  [ok |-> TRUE,
                  obj |-> [o1 EXCEPT !.type_name = type_name, !.name = name,
                                     !.id = id, !.outer = outer],
                  reads |-> 7]

\* "try path 1, if fails try path 2", as both callers do
SecondPath(address, r1, r2) ==
    [ok |-> r2.ok, obj |-> r2.obj, reads |-> r1.reads + r2.reads]

FirstPath(address, r1) ==
    IF r1.ok THEN r1 ELSE SecondPath(address, r1, get_basic_info_2(address, r1.obj))

GetBasicInfo(address) ==
    FirstPath(address,
              get_basic_info_1(address, [ObjectData_empty EXCEPT !.address = address]))

\* the record as try_save_object holds it after the basic info: its address,
\* and "InvalidName" for a name that resolved to nothing
Normalised(address, o) ==
    [o EXCEPT !.address = address,
              !.name = IF o.name = <<>> THEN sInvalidName ELSE o.name]

(***************************************************************************)
(* Decisions of try_save_object and resolve_full_name.                     *)
(***************************************************************************)
\* the guard with a digit dropped from its threshold
IsNullPointer_0x1000(address) == address < 4096

\* "Guard: null pointer"
IsNullPointer(address) == address < MinPointer

\* the type name check before anything is cached
RejectedType(type_name) == type_name = <<>> \/ Len(type_name) > MaxTypeLen

IsPlaceholderName_none_only(name) == name = sNone

\* the records that are returned without being cached
IsPlaceholderName(name) == name = sNone \/ name = sInvalidName

\* the condition of the cache_by_id insert
IdInsertable(obj) ==
    /\ obj.id > 0
    /\ obj.id # -1
    /\ ~Contains(obj.type_name, sProperty)

\* the condition under which resolve_full_name is called
NeedsFullName(obj) ==
    ~Contains(obj.type_name, sProperty) /\ obj.address # obj.outer

\* the loop condition of resolve_full_name
WalkContinues(current_outer, concat_count) ==
    current_outer > MinPointer /\ concat_count < max_concat

\* the shallow record that ends the walk
ShallowRejected(outer_obj) == outer_obj.type_name = <<>> \/ outer_obj.name = <<>>

IsPropOrFunc(type_name) ==
    Contains(type_name, sProperty) \/ Contains(type_name, sFunction)

\* the separator with the test on the child's type left out
Separator_outer_only(prev_type, outer_type) ==
    IF ~IsPropOrFunc(outer_type) THEN sColon ELSE sDot

\* the separator between an outer's name and what was composed so far
Separator(prev_type, outer_type) ==
    IF IsPropOrFunc(prev_type) /\ ~IsPropOrFunc(outer_type) THEN sColon ELSE sDot

\* format!("{}{}{}", outer.name, sep, result)
Compose(outer_name, sep, result) == outer_name \o sep \o result

\* DashMap::insert
Insert(map, key, value) ==
    [k \in (DOMAIN map) \cup {key} |-> IF k = key THEN value ELSE map[k]]

\* DashMap::new / DashMap::clear
EmptyMap == [k \in {} |-> 0]

(***************************************************************************)
(* State.                                                                  *)
(***************************************************************************)
\* rayon workers of parse_array, and the thread of a query command
Workers == {"w1", "w2"}
Queries == {"q"}
Threads == Workers \cup Queries

\* a run: the addresses handed to try_save_object (the entries of the
\* object array and the pointers a query follows) and the threads that
\* take part (the size of the rayon pool, and whether queries are issued)
Runs ==
    { [roots |-> {ObjA, ObjP}, pool |-> Workers],
      [roots |-> {ObjA, ObjX}, pool |-> {"w1", "q"}],
      [roots |-> {CycA}, pool |-> {"w1"}],
      [roots |-> {ObjSelf, ObjLow, ObjUnmapped}, pool |-> Threads],
      [roots |-> {ObjNone, ObjNoName, ObjT, ObjM}, pool |-> Threads],
      [roots |-> {ObjK, ObjL}, pool |-> Threads],
      [roots |-> {ObjZ}, pool |-> Threads],
      [roots |-> {ObjF}, pool |-> {"w1"}] }

VARIABLES
    byAddress,      \* ObjectManager.cache_by_address
    byId,           \* ObjectManager.cache_by_id
    count,          \* ObjectManager.total_object_count
    name_pool,      \* AppState.name_pool is Some
    pcmd,           \* the parse_guobject_array invocation that is resetting the catalog
    running,        \* parse_array jobs in flight
    th,             \* the locals of each thread inside try_save_object
    last,           \* the try_save_object call that returned last
    roots,          \* the addresses of this run
    pool,           \* the threads of this run
    ncalls,         \* try_save_object calls made so far
    nparses,        \* parse commands started so far
    enrich,         \* per address, the count increments made by workers
    qres,           \* the result of the last read-only query
    nqueries,       \* read-only queries answered so far
    overlap,        \* a try_save_object call has run while the catalog was being reset
    string_offset,  \* FNamePool.string_offset
    gn,             \* the locals of each thread inside get_name
    glast,          \* the get_name call that returned last
    pmem,           \* the bytes of block 0 of the target's name pool
    ngets,          \* get_name calls made so far
    process,        \* AppState.process
    base_addresses, \* AppState.base_addresses
    holds,          \* per AppState field, the handle its value was read through
    os_open,        \* the handles the operating system has open
    closes,         \* per handle, the CloseHandle calls made on it
    jobs,           \* async commands in flight, each with its Process clone
    sres,           \* the result of the last session command
    completed,      \* the parse commands that returned Ok, each with its handle
    nopens,         \* OpenProcess calls that returned a handle
    ncmds,          \* session commands issued so far
    rd,             \* the last reader call: operation, OS outcome and result
    nreads,         \* reader calls made so far
    call,           \* the arguments of the function under study, with the target it reads
    ret             \* what the function returned; NotCalled before the call

catalog == <<byAddress, byId, count>>
catalogVars ==
    <<byAddress, byId, count, name_pool, pcmd, running, th, last, roots, pool,
      ncalls, nparses, enrich, qres, nqueries, overlap>>
poolVars == <<string_offset, gn, glast, pmem, ngets>>
sessVars ==
    <<process, base_addresses, holds, os_open, closes, jobs, sres, completed,
      nopens, ncmds>>
readerVars == <<rd, nreads>>
callVars == <<call, ret>>
others == <<poolVars, sessVars, readerVars, callVars>>
vars == <<catalogVars, others>>

\* FNamePool::new: AtomicUsize::new(usize::MAX), usize::MAX read as -1
OffsetUnset == -1

\* a thread outside get_name
GnIdle == [pc |-> "idle", id |-> 0, entry |-> 0, name_length |-> 0, offset_val |-> OffsetUnset]

\* no get_name call has returned
NoGet == [id |-> 0, ok |-> FALSE, str |-> <<>>, used |-> OffsetUnset, name_length |-> 0]

\* the name pool is not exercised
PoolIdle ==
    /\ string_offset = OffsetUnset
    /\ gn = [t \in {"w1", "w2"} |-> GnIdle]
    /\ glast = NoGet
    /\ pmem = <<>>
    /\ ngets = 0

\* no session command has returned
NoResult == [cmd |-> "", ok |-> FALSE, msg |-> "", at |-> <<>>]

AnchorNames == {"fname_pool", "guobject_array", "guobject_element_size", "gworld"}
Fields == AnchorNames \cup {"name_pool", "catalog"}

\* AppState::new(): no process, BaseAddresses::default()
SessionIdle ==
    /\ process = None
    /\ base_addresses = [k \in AnchorNames |-> None]
    /\ holds = [k \in Fields |-> 0]
    /\ os_open = {}
    /\ closes = <<>>
    /\ jobs = {}
    /\ sres = NoResult
    /\ completed = {}
    /\ nopens = 0
    /\ ncmds = 0

\* the function under study has not been called; afterwards ret holds its
\* return value as its only element
NotCalled == <<>>
Returns(v) == <<v>>

CallIdle ==
    /\ call = <<>>
    /\ ret = NotCalled

\* no reader call has been made
NoRead == [op |-> "", address |-> 0, size |-> 0, success |-> FALSE, bytes_read |-> 0, result |-> None]

ReaderIdle ==
    /\ rd = NoRead
    /\ nreads = 0

Locals0 ==
    [pc |-> "idle", address |-> 0, obj |-> ObjectData_empty,
     result |-> <<>>, current_outer |-> 0, concat_count |-> 0, prev_type |-> <<>>,
     outer_obj |-> ObjectData_empty, reads |-> 0]

NoCall == [address |-> 0, ret |-> None, reads |-> 0]

\* no try_save_object call is in progress
Quiescent == \A t \in Threads : th[t].pc = "idle"

\* ObjectManager::new() and AppState::new()
Init ==
    /\ byAddress = EmptyMap
    /\ byId = EmptyMap
    /\ count = 0
    /\ name_pool = FALSE
    /\ pcmd = "idle"
    /\ running = 0
    /\ th = [t \in Threads |-> Locals0]
    /\ last = NoCall
    /\ \E r \in Runs : roots = r.roots /\ pool = r.pool
    /\ ncalls = 0
    /\ nparses = 0
    /\ enrich = EmptyMap
    /\ qres = <<>>
    /\ nqueries = 0
    /\ overlap = FALSE
    /\ PoolIdle
    /\ SessionIdle
    /\ ReaderIdle
    /\ CallIdle

(***************************************************************************)
(* try_save_object, one action per access to the shared maps.              *)
(***************************************************************************)
\* what a call leaves behind when it returns value
Returned(address, value, reads) ==
    [address |-> address, ret |-> value, reads |-> reads]

\* the locals after an iteration of the walk: the loop goes on, or
\* resolve_full_name stores the result and returns to try_save_object
AfterIteration(L) ==
    IF WalkContinues(L.current_outer, L.concat_count)
    THEN [L EXCEPT !.pc = "walk"]
    ELSE [L EXCEPT !.pc = "tier2", !.obj.full_name = L.result]

\* the `break` of the walk
WalkBreak(L) == [L EXCEPT !.pc = "tier2", !.obj.full_name = L.result]

\* the guards, the Tier 1 lookup and the basic info, up to the first insert
try_save_object(t, address) ==
    LET return(value, reads) ==
            /\ last' = Returned(address, value, reads)
            /\ th' = th
    IN  /\ th[t].pc = "idle"
        /\ t \in pool
        /\ ncalls < MaxCalls
        /\ ncalls' = ncalls + 1
        /\ \E info \in {GetBasicInfo(address)} :
           \E obj \in {Normalised(address, info.obj)} :
           IF IsNullPointer(address) THEN return(None, 0)
           ELSE IF CallDepth >= CallMaxDepth THEN return(None, 0)
           ELSE IF try_read_pointer(address) = None THEN return(None, 1)
           ELSE IF address \in DOMAIN byAddress
                THEN return(Some(byAddress[address]), 1)
           ELSE IF ~info.ok THEN return(None, 1 + info.reads)
           ELSE IF RejectedType(obj.type_name) THEN return(None, 1 + info.reads)
           ELSE IF IsPlaceholderName(obj.name) THEN return(Some(obj), 1 + info.reads)
           ELSE /\ th' = [th EXCEPT ![t] =
                            [Locals0 EXCEPT !.pc = "tier1", !.address = address,
                                            !.obj = obj, !.reads = 1 + info.reads]]
                /\ last' = last
        /\ overlap' = (overlap \/ pcmd # "idle")
        /\ UNCHANGED <<byAddress, byId, count, name_pool, pcmd, running, roots, pool,
                       nparses, enrich, qres, nqueries, others>>

\* the pool thread that takes the next batch entry: the pool's threads are
\* interchangeable, so the first idle one stands for any of them
FreeWorker ==
    IF th["w1"].pc = "idle" THEN "w1" ELSE "w2"

\* thread_search_all_object: a worker of a running parse visits an entry
\* that passes the "IsPointer check"
WalkerVisit(t) ==
    /\ t \in Workers
    /\ t = FreeWorker
    /\ running > 0
    /\ \E a \in roots :
          /\ ~(a < MinPointer \/ try_read_pointer(a) = None)
          /\ try_save_object(t, a)

\* search_object_instances, add_inspector, get_instance_details and
\* get_array_elements: a query resolves a pointer it found
QueryVisit(t) ==
    /\ t \in Queries
    /\ name_pool
    /\ \E a \in roots : try_save_object(t, a)

\* "Tier 1 Insert: Save partial data immediately"
Tier1Insert(t) ==
    /\ th[t].pc = "tier1"
    /\ byAddress' = Insert(byAddress, th[t].address, th[t].obj)
    /\ th' = [th EXCEPT ![t].pc = "byid"]
    /\ overlap' = (overlap \/ pcmd # "idle")
    /\ UNCHANGED <<byId, count, name_pool, pcmd, running, last, roots, pool, ncalls,
                   nparses, enrich, qres, nqueries, others>>

\* the cache_by_id insert, then the entry into resolve_full_name
ByIdInsert(t) ==
    LET L == th[t]
        entered == [L EXCEPT !.result = L.obj.name, !.current_outer = L.obj.outer,
                             !.concat_count = 0, !.prev_type = L.obj.type_name]
    IN  /\ L.pc = "byid"
        /\ byId' = IF IdInsertable(L.obj) THEN Insert(byId, L.obj.id, L.address) ELSE byId
        /\ th' = [th EXCEPT ![t] =
              IF NeedsFullName(L.obj) THEN AfterIteration(entered)
              ELSE [L EXCEPT !.pc = "tier2"]]
        /\ overlap' = (overlap \/ pcmd # "idle")
        /\ UNCHANGED <<byAddress, count, name_pool, pcmd, running, last, roots, pool,
                       ncalls, nparses, enrich, qres, nqueries, others>>

\* one iteration of the walk up to its access to cache_by_address: the
\* cached branch, or the shallow resolve up to its insert
WalkStep(t) ==
    LET L == th[t]
        n == L.concat_count + 1
        cached == byAddress[L.current_outer]
    IN  /\ L.pc = "walk"
        /\ \E info \in {GetBasicInfo(L.current_outer)} :
           th' = [th EXCEPT ![t] =
              IF L.current_outer \in DOMAIN byAddress
              THEN AfterIteration(
                      [L EXCEPT !.concat_count = n,
                                !.result = Compose(cached.name,
                                                   Separator(L.prev_type, cached.type_name),
                                                   L.result),
                                !.prev_type = cached.type_name,
                                !.current_outer = cached.outer])
              ELSE IF try_read_pointer(L.current_outer) = None
                   THEN WalkBreak([L EXCEPT !.concat_count = n, !.reads = @ + 1])
              ELSE IF ShallowRejected(info.obj)
                   THEN WalkBreak([L EXCEPT !.concat_count = n,
                                            !.reads = @ + 1 + info.reads])
              ELSE [L EXCEPT !.pc = "shallow", !.concat_count = n,
                             !.outer_obj = info.obj, !.reads = @ + 1 + info.reads]]
        /\ overlap' = (overlap \/ pcmd # "idle")
        /\ UNCHANGED <<byAddress, byId, count, name_pool, pcmd, running, last, roots, pool,
                       ncalls, nparses, enrich, qres, nqueries, others>>

\* "Cache this shallow result", then the rest of the iteration
ShallowInsert(t) ==
    LET L == th[t]
    IN  /\ L.pc = "shallow"
        /\ byAddress' = Insert(byAddress, L.current_outer, L.outer_obj)
        /\ th' = [th EXCEPT ![t] =
              AfterIteration(
                  [L EXCEPT !.result = Compose(L.outer_obj.name,
                                               Separator(L.prev_type, L.outer_obj.type_name),
                                               L.result),
                            !.prev_type = L.outer_obj.type_name,
                            !.current_outer = L.outer_obj.outer,
                            !.outer_obj = ObjectData_empty])]
        /\ overlap' = (overlap \/ pcmd # "idle")
        /\ UNCHANGED <<byId, count, name_pool, pcmd, running, last, roots, pool, ncalls,
                       nparses, enrich, qres, nqueries, others>>

\* "Tier 2 Insert: Update with complete data"
Tier2Insert(t) ==
    /\ th[t].pc = "tier2"
    /\ byAddress' = Insert(byAddress, th[t].address, th[t].obj)
    /\ th' = [th EXCEPT ![t].pc = "count"]
    /\ overlap' = (overlap \/ pcmd # "idle")
    /\ UNCHANGED <<byId, count, name_pool, pcmd, running, last, roots, pool, ncalls,
                   nparses, enrich, qres, nqueries, others>>

\* total_object_count.fetch_add(1), and the return of Some(obj)
CountIncrement(t) ==
    LET L == th[t]
    IN  /\ L.pc = "count"
        /\ count' = count + 1
        /\ enrich' = IF t \in Workers
                     THEN Insert(enrich, L.address,
                                 IF L.address \in DOMAIN enrich
                                 THEN enrich[L.address] + 1 ELSE 1)
                     ELSE enrich
        /\ last' = Returned(L.address, Some(L.obj), L.reads)
        /\ th' = [th EXCEPT ![t] = Locals0]
        /\ overlap' = (overlap \/ pcmd # "idle")
        /\ UNCHANGED <<byAddress, byId, name_pool, pcmd, running, roots, pool, ncalls,
                       nparses, qres, nqueries, others>>

(***************************************************************************)
(* The commands that only read the catalog.                                *)
(***************************************************************************)
extract_package_name_dot_first(input) ==
    LET first_slash == Find(input, "/", 1)
        second_slash == Find(input, "/", first_slash + 1)
        dot_pos == Find(input, ".", second_slash + 1)
        colon_pos == Find(input, ":", second_slash + 1)
    IN  IF first_slash = 0 THEN <<>>
        ELSE IF second_slash = 0 THEN <<>>
        ELSE IF dot_pos # 0 THEN SubSeq(input, first_slash, dot_pos - 1)
        ELSE IF colon_pos # 0 THEN SubSeq(input, first_slash, colon_pos - 1)
        ELSE SubSeq(input, first_slash, Len(input))

\* extract_package_name
extract_package_name(input) ==
    LET first_slash == Find(input, "/", 1)
        second_slash == Find(input, "/", first_slash + 1)
        third_slash == Find(input, "/", second_slash + 1)
        dot_pos == Find(input, ".", second_slash + 1)
        colon_pos == Find(input, ":", second_slash + 1)
    IN  IF first_slash = 0 THEN <<>>
        ELSE IF second_slash = 0 THEN <<>>
        ELSE IF third_slash # 0 THEN SubSeq(input, first_slash, third_slash - 1)
        ELSE IF dot_pos # 0 THEN SubSeq(input, first_slash, dot_pos - 1)
        ELSE IF colon_pos # 0 THEN SubSeq(input, first_slash, colon_pos - 1)
        ELSE SubSeq(input, first_slash, Len(input))

\* the packages get_packages keeps
AcceptedPackage(pkg_name) ==
    /\ pkg_name # <<>>
    /\ \/ StartsWith(pkg_name, sScriptPrefix)
       \/ StartsWith(pkg_name, sEnginePrefix)
       \/ StartsWith(pkg_name, sGamePrefix)

\* the strings of a set in ascending order
RECURSIVE SortedNames(_)
SortedNames(S) ==
    IF S = {} THEN <<>>
    ELSE LET least == CHOOSE x \in S : \A y \in S \ {x} : StrLess(x, y)
         IN  <<least>> \o SortedNames(S \ {least})

\* the value get_packages returns for a content of cache_by_address
PackageList(map) ==
    LET pkg(a) == extract_package_name(map[a].full_name)
        names == {pkg(a) : a \in {x \in DOMAIN map : AcceptedPackage(pkg(x))}}
        sorted == SortedNames(names)
    IN  [i \in 1..Len(sorted) |->
            [name |-> sorted[i],
             object_count |-> Cardinality({a \in DOMAIN map : pkg(a) = sorted[i]})]]

\* get_packages written with retain() in place of iter(): the records of
\* no accepted package are dropped from the cache
get_packages_retain(t) ==
    /\ t \in Queries
    /\ t \in pool
    /\ th[t].pc = "idle"
    /\ nqueries < MaxQueries
    /\ nqueries' = nqueries + 1
    /\ qres' = PackageList(byAddress)
    /\ byAddress' = [a \in {x \in DOMAIN byAddress :
                               AcceptedPackage(extract_package_name(byAddress[x].full_name))}
                         |-> byAddress[a]]
    /\ UNCHANGED <<byId, count, name_pool, pcmd, running, th, last,
                   roots, pool, ncalls, nparses, enrich, overlap, others>>

\* get_packages
get_packages(t) ==
    /\ t \in Queries
    /\ t \in pool
    /\ th[t].pc = "idle"
    /\ nqueries < MaxQueries
    /\ nqueries' = nqueries + 1
    /\ qres' = PackageList(byAddress)
    /\ UNCHANGED <<byAddress, byId, count, name_pool, pcmd, running, th, last,
                   roots, pool, ncalls, nparses, enrich, overlap, others>>

(***************************************************************************)
(* parse_guobject_array.  One invocation at a time is in its reset phase;  *)
(* the parse_array jobs of earlier invocations may still be running.       *)
(***************************************************************************)
\* the command takes the process and name pool mutexes in turn (a query
\* holds both for as long as it runs), stores the name pool and goes on
ParseBegin ==
    /\ pcmd = "idle"
    /\ nparses < MaxParses
    /\ \A t \in Queries : th[t].pc = "idle"
    /\ nparses' = nparses + 1
    /\ name_pool' = TRUE
    /\ pcmd' = "clear_address"
    /\ enrich' = EmptyMap
    /\ UNCHANGED <<byAddress, byId, count, running, th, last, roots, pool, ncalls, qres, nqueries, overlap, others>>

\* obj_mgr.cache_by_address.clear()
ClearByAddress ==
    /\ pcmd = "clear_address"
    /\ byAddress' = EmptyMap
    /\ pcmd' = "clear_id"
    /\ overlap' = (overlap \/ ~Quiescent)
    /\ UNCHANGED <<byId, count, name_pool, running, th, last, roots, pool, ncalls,
                   nparses, enrich, qres, nqueries, others>>

\* obj_mgr.cache_by_id.clear()
ClearById ==
    /\ pcmd = "clear_id"
    /\ byId' = EmptyMap
    /\ pcmd' = "store_count"
    /\ overlap' = (overlap \/ ~Quiescent)
    /\ UNCHANGED <<byAddress, count, name_pool, running, th, last, roots, pool, ncalls,
                   nparses, enrich, qres, nqueries, others>>

\* obj_mgr.total_object_count.store(0), then spawn_blocking(parse_array)
StoreCount ==
    /\ pcmd = "store_count"
    /\ count' = 0
    /\ pcmd' = "idle"
    /\ running' = running + 1
    /\ overlap' = (overlap \/ ~Quiescent)
    /\ UNCHANGED <<byAddress, byId, name_pool, th, last, roots, pool, ncalls, nparses,
                   enrich, qres, nqueries, others>>

\* parse_array returns once the parallel loops have joined their workers
ParseFinish ==
    /\ running > 0
    /\ \A t \in Workers : th[t].pc = "idle"
    /\ running' = running - 1
    /\ UNCHANGED <<byAddress, byId, count, name_pool, pcmd, th, last, roots, pool,
                   ncalls, nparses, enrich, qres, nqueries, overlap, others>>

(***************************************************************************)
(* The specification.                                                      *)
(***************************************************************************)
Next ==
    \/ \E t \in Threads : WalkerVisit(t)
    \/ \E t \in Threads : QueryVisit(t)
    \/ \E t \in Threads : Tier1Insert(t)
    \/ \E t \in Threads : ByIdInsert(t)
    \/ \E t \in Threads : WalkStep(t)
    \/ \E t \in Threads : ShallowInsert(t)
    \/ \E t \in Threads : Tier2Insert(t)
    \/ \E t \in Threads : CountIncrement(t)
    \/ \E t \in Threads : get_packages(t)
    \/ ParseBegin
    \/ ClearByAddress
    \/ ClearById
    \/ StoreCount
    \/ ParseFinish

Spec == Init /\ [][Next]_vars

(***************************************************************************)
(* The claims.                                                             *)
(***************************************************************************)
(* FNamePool::get_name.  The pool's bytes are numbers and the strings read *)
(* from it are sequences of them; addresses are relative to the start of   *)
(* block 0.  A call has two accesses to the shared string offset: the load *)
(* and the compare_exchange.                                               *)
(***************************************************************************)
MaxGets == 3

\* the catalog is not exercised
CatalogIdle ==
    /\ byAddress = EmptyMap
    /\ byId = EmptyMap
    /\ count = 0
    /\ name_pool = FALSE
    /\ pcmd = "idle"
    /\ running = 0
    /\ th = [t \in Threads |-> Locals0]
    /\ last = NoCall
    /\ roots = {}
    /\ pool = {}
    /\ ncalls = 0
    /\ nparses = 0
    /\ enrich = EmptyMap
    /\ qres = <<>>
    /\ nqueries = 0
    /\ overlap = FALSE

\* "ByteProperty"
bByteProperty == <<66, 121, 116, 101, 80, 114, 111, 112, 101, 114, 116, 121>>

\* the two header bytes of an entry whose name has n bytes: n << 6, little endian
HeaderBytes(n) == <<(n * 64) % 256, (n * 64) \div 256>>

\* a pool whose strings start 2 bytes into their entry: "None" (id 0),
\* "ByteProperty" (id 3), a 3-byte name holding a zero byte (id 10), a
\* header of length 201 (id 13), a header of length 0 (id 15)
PoolPlain ==
    HeaderBytes(4) \o <<78, 111, 110, 101>>
    \o HeaderBytes(12) \o bByteProperty
    \o HeaderBytes(3) \o <<65, 0, 98>> \o <<0>>
    \o HeaderBytes(201) \o <<120, 120>>
    \o HeaderBytes(0) \o <<0, 0>>

\* a pool whose strings start 4 bytes into their entry: the entry of id 2
\* holds "ByteProperty" at +4, and the two bytes at +2 read as a header of
\* length 12 for id 3, which finds the same string at +2
PoolPrefixed ==
    <<0, 0, 0, 0>>
    \o HeaderBytes(12) \o HeaderBytes(12) \o bByteProperty
    \o <<0, 0>>

PoolMemories == {PoolPlain, PoolPrefixed}

\* the ids asked for: entries of block 0, and an id of a block that is not mapped
NameIds == {2, 3, 10, 13, 15, 65536}

\* Memory::read::<u8> on the pool
ReadByte(mem, a) == IF (a + 1) \in DOMAIN mem THEN Some(mem[a + 1]) ELSE None

\* Memory::read::<u16> on the pool
ReadU16(mem, a) ==
    IF (a + 1) \in DOMAIN mem /\ (a + 2) \in DOMAIN mem
    THEN Some(mem[a + 1] + 256 * mem[a + 2])
    ELSE None

\* Memory::read_pointer of the block table: block 0 is mapped (at 0)
ReadBlockPointer(block) == IF block = 0 THEN Some(0) ELSE None

\* Memory::read_bytes on the pool, where ReadProcessMemory copies the whole
\* range or fails
ReadBytes(mem, a, n) ==
    IF \A k \in 1..n : (a + k) \in DOMAIN mem
    THEN Some([k \in 1..n |-> mem[a + k]])
    ELSE None

\* std::str::from_utf8 on the bytes the modelled pools hold (all below 128)
IsUtf8(buf) == \A k \in DOMAIN buf : buf[k] < 128

\* Memory::read_string: bytes up to a zero byte or max_length of them
RECURSIVE read_string(_, _, _)
read_string(mem, address, max_length) ==
    IF max_length = 0 THEN Some(<<>>)
    ELSE IF ReadByte(mem, address) = None THEN None
    ELSE IF ReadByte(mem, address)[1] = 0 THEN Some(<<>>)
    ELSE IF read_string(mem, address + 1, max_length - 1) = None THEN None
    ELSE Some(<<ReadByte(mem, address)[1]>> \o read_string(mem, address + 1, max_length - 1)[1])

\* "if name_length < 1 || name_length > 200"
InvalidNameLength(name_length) == name_length < 1 \/ name_length > 200

\* the ids and lengths on which a call runs the discovery
RunsDiscovery(id, name_length) ==
    id > 0 /\ id < 7 /\ name_length > 10 /\ name_length < 15

\* the offsets the probe accepts, "for i in 2..0x20"
ProbeHits(mem, entry, name_length) ==
    {i \in 2..31 :
        /\ ReadBytes(mem, entry + i, name_length) # None
        /\ IsUtf8(ReadBytes(mem, entry + i, name_length)[1])
        /\ Contains(ReadBytes(mem, entry + i, name_length)[1], bByteProperty)}

\* the first of them
Min(S) == CHOOSE x \in S : \A y \in S : x <= y

\* AtomicUsize::compare_exchange with a plain store in its place
compare_exchange_store(current, expected, new) == new

\* AtomicUsize::compare_exchange: the value the atomic holds afterwards
compare_exchange(current, expected, new) ==
    IF current = expected THEN new ELSE current

\* what a call leaves behind when it returns
GetReturned(id, ok, str, used, name_length) ==
    [id |-> id, ok |-> ok, str |-> str, used |-> used, name_length |-> name_length]

\* get_name up to the load of string_offset
GetNameLoad(t, id) ==
    /\ gn[t].pc = "idle"
    /\ ngets < MaxGets
    /\ ngets' = ngets + 1
    /\ \E block \in {id \div 65536} : \E offset \in {id % 65536} :
       \E blk \in {ReadBlockPointer(block)} :
       \E entry \in {OrZero(blk) + offset * 2} :
       \E header \in {ReadU16(pmem, entry)} :
       \E name_length \in {OrZero(header) \div 64} :
          IF blk = None \/ header = None \/ InvalidNameLength(name_length)
          THEN /\ glast' = GetReturned(id, FALSE, <<>>, OffsetUnset, name_length)
               /\ gn' = gn
          ELSE /\ gn' = [gn EXCEPT ![t] =
                          [pc |-> "loaded", id |-> id, entry |-> entry,
                           name_length |-> name_length, offset_val |-> string_offset]]
               /\ glast' = glast
    /\ UNCHANGED <<string_offset, pmem, catalogVars, sessVars, readerVars, callVars>>

\* the lazy discovery with its compare_exchange, then read_string
GetNameFinish(t) ==
    /\ gn[t].pc = "loaded"
    /\ \E hits \in {ProbeHits(pmem, gn[t].entry, gn[t].name_length)} :
       \E probed \in {gn[t].offset_val = OffsetUnset
                        /\ RunsDiscovery(gn[t].id, gn[t].name_length)
                        /\ hits # {}} :
       \E offset_val \in {IF probed THEN Min(hits) ELSE gn[t].offset_val} :
       \E str \in {read_string(pmem, gn[t].entry + offset_val, gn[t].name_length)} :
          /\ string_offset' = IF probed
                              THEN compare_exchange(string_offset, OffsetUnset, offset_val)
                              ELSE string_offset
          /\ glast' = IF offset_val = OffsetUnset \/ str = None
                      THEN GetReturned(gn[t].id, FALSE, <<>>, offset_val, gn[t].name_length)
                      ELSE GetReturned(gn[t].id, TRUE, str[1], offset_val, gn[t].name_length)
    /\ gn' = [gn EXCEPT ![t] = GnIdle]
    /\ UNCHANGED <<pmem, ngets, catalogVars, sessVars, readerVars, callVars>>

\* FNamePool::new over a target, before any call
InitNames ==
    /\ CatalogIdle
    /\ string_offset = OffsetUnset
    /\ gn = [t \in Workers |-> GnIdle]
    /\ glast = NoGet
    /\ pmem \in PoolMemories
    /\ ngets = 0
    /\ SessionIdle
    /\ ReaderIdle
    /\ CallIdle

NextNames ==
    \/ \E t \in Workers : \E id \in NameIds : GetNameLoad(t, id)
    \/ \E t \in Workers : GetNameFinish(t)

SpecNames == InitNames /\ [][NextNames]_vars

\* C13: the shared string offset changes at most once, from the sentinel to
\* a discovered value in [2, 0x20), and never afterwards
C13_OffsetSetOnce ==
    [][string_offset' # string_offset
         => string_offset = OffsetUnset /\ string_offset' \in 2..31]_vars

\* two calls ran the discovery with different results and the offset kept
\* the value committed first
C13_Witness ==
    /\ string_offset # OffsetUnset
    /\ glast.ok
    /\ glast.used # OffsetUnset
    /\ glast.used # string_offset

\* C14: every call that returns a string has read it at entry + S for the
\* value S committed in the pool, also a call that ran the probe itself
C14_ReturnedStringsUseCommittedOffset ==
    glast.ok => glast.used = string_offset

\* C15: a returned string has exactly header >> 6 characters, that length
\* being in 1..200, and a header length outside 1..200 yields an error
C15_ReturnedLengthIsHeaderLength ==
    /\ glast.ok => Len(glast.str) = glast.name_length /\ glast.name_length \in 1..200
    /\ glast.id # 0 /\ glast.name_length \notin 1..200 => ~glast.ok


(***************************************************************************)
\* parse_guobject_array has returned: its parse_array job has joined
ParseCompleted == nparses > 0 /\ pcmd = "idle" /\ running = 0

\* C1: in every reachable state no record of byAddress, the shallow records
\* of the outer walk included, has an empty typeName or one longer than 100
C1_CachedTypeNamesValid ==
    \A a \in DOMAIN byAddress : ~RejectedType(byAddress[a].type_name)

\* C2: once the parse has completed, every cached record that is not a
\* property and whose outer is not its own address has a fullName that is
\* its name or ends with "." or ":" followed by its name
C2_FullNameEndsWithName ==
    ParseCompleted /\ Quiescent /\ ~overlap =>
        \A a \in DOMAIN byAddress :
            ~Contains(byAddress[a].type_name, sProperty)
                /\ byAddress[a].outer # byAddress[a].address
            => \/ byAddress[a].full_name = byAddress[a].name
               \/ EndsWith(byAddress[a].full_name, sDot \o byAddress[a].name)
               \/ EndsWith(byAddress[a].full_name, sColon \o byAddress[a].name)

\* C3: at quiescence count is the number of cached records whose name is
\* neither "None" nor "InvalidName"
C3_CountMatchesRecords ==
    Quiescent /\ pcmd = "idle" /\ ~overlap =>
        count = Cardinality({a \in DOMAIN byAddress :
                                ~IsPlaceholderName(byAddress[a].name)})

\* C4: in every reachable state, also while a re-parse clears the catalog,
\* every pair (id, a) of byId has a record byAddress[a] with that id and a
\* typeName that does not contain "Property"
C4_ByIdPointsAtRecord ==
    \A id \in DOMAIN byId :
        /\ byId[id] \in DOMAIN byAddress
        /\ byAddress[byId[id]].id = id
        /\ ~Contains(byAddress[byId[id]].type_name, sProperty)

\* C5: the step of parseObjects that empties byAddress also empties byId and
\* resets count, so that no state has only some of the three reset
C5_ClearIsAtomic ==
    [][byAddress # EmptyMap /\ byAddress' = EmptyMap
         => byId' = EmptyMap /\ count' = 0]_vars

\* C6 as stated: once the parse has completed no step of a query changes
\* byAddress, byId or count
C6_QueriesNeverWrite ==
    [][ParseCompleted /\ (nqueries' # nqueries \/ \E t \in Queries : th'[t] # th[t])
         => UNCHANGED catalog]_vars

\* C6 as amended: the commands that only iterate the cache (listPackages,
\* listObjects, details, search) leave byAddress, byId and count unchanged;
\* the queries that call trySave (findInstances, inspectHierarchy,
\* inspectInstance, expandArray) may add records and increment count but
\* never remove a record or lower count
C6_QueriesOnlyAddThroughTrySave ==
    [][/\ nqueries' # nqueries => UNCHANGED catalog
       /\ (\E t \in Queries : th'[t] # th[t])
            => /\ DOMAIN byAddress \subseteq DOMAIN byAddress'
               /\ DOMAIN byId \subseteq DOMAIN byId'
               /\ count' >= count]_vars

\* a read-only query has answered from a populated cache after the parse,
\* and a query is inside try_save_object about to count a new record
C6_Witness ==
    /\ ParseCompleted
    /\ nqueries > 0
    /\ ~overlap
    /\ qres # <<>>
    /\ qres = PackageList(byAddress)
    /\ \E t \in Queries : th[t].pc = "count"

\* C7: within one parse at most one worker performs the enrichment and the
\* count increment for an address
C7_SingleEnrichmentPerAddress ==
    \A a \in DOMAIN enrich : enrich[a] <= 1

\* C8: on the 3-cycle A -> B -> C -> A the outer walk makes at most 10
\* iterations and no object name occurs more than once in the fullName
C8_CycleWalkNoRepeatedName ==
    /\ \A t \in Threads : th[t].concat_count <= max_concat
    /\ last.address \in {CycA, CycB, CycC} /\ last.ret # None
         => \A n \in {<<"a">>, <<"b">>, <<"c">>} :
                Occurrences(last.ret[1].full_name, n) <= 1

\* C9: trySave on a cacheable record that is not a property and whose outer
\* is its own address returns and caches a record whose fullName is its name
C9_SelfOuterFullNameIsName ==
    /\ last.ret # None /\ last.ret[1].outer = last.address
           /\ ~Contains(last.ret[1].type_name, sProperty)
           /\ ~IsPlaceholderName(last.ret[1].name)
         => last.ret[1].full_name = last.ret[1].name
    /\ Quiescent /\ ObjSelf \in DOMAIN byAddress
         => byAddress[ObjSelf].full_name = byAddress[ObjSelf].name

\* C10: trySave(a) with a < 0x10000 returns None at once, having read
\* nothing from the target, and leaves byAddress, byId and count as they were
C10_NullPointerGuard ==
    /\ [](/\ last.address < MinPointer => last.ret = None /\ last.reads = 0
          /\ \A t \in Threads : th[t].pc # "idle" => th[t].address >= MinPointer
          /\ \A a \in DOMAIN byAddress : a >= MinPointer)
    /\ [][ncalls' # ncalls /\ th' = th /\ last'.address < MinPointer
            => UNCHANGED catalog]_vars

\* such a call has returned while the catalog holds records
C10_Witness ==
    /\ ncalls > 0
    /\ last = Returned(ObjLow, None, 0)
    /\ byAddress # EmptyMap

\* C11: trySave gives the property node X (ObjectProperty "Owner", outer A)
\* the fullName "/Script/Engine.Actor:Owner" when A has the fullName
\* "/Script/Engine.Actor"
C11_PropertyFullNameComposed ==
    /\ last.address = ObjX
    /\ last.ret # None
    /\ ObjA \in DOMAIN byAddress
    /\ byAddress[ObjA].full_name = sScriptEngine \o sDot \o sActor
    => last.ret[1].full_name = sScriptEngine \o sDot \o sActor \o sColon \o sOwner

\* the separator rule as the specification words it
SepRule(child_type, outer_type) ==
    IF /\ (Contains(child_type, sProperty) \/ Contains(child_type, sFunction))
       /\ ~(Contains(outer_type, sProperty) \/ Contains(outer_type, sFunction))
    THEN sColon
    ELSE sDot

\* the name composed root-first over the outers of the target, each outer's
\* name put before what was composed so far
RECURSIVE RootFirstName(_, _, _, _)
RootFirstName(composed, child_type, outer, fuel) ==
    IF outer <= MinPointer \/ fuel = 0 \/ try_read_pointer(outer) = None
    THEN composed
    ELSE LET o == GetBasicInfo(outer).obj
         IN  IF o.type_name = <<>> \/ o.name = <<>>
             THEN composed
             ELSE RootFirstName(o.name \o SepRule(child_type, o.type_name) \o composed,
                                o.type_name, o.outer, fuel - 1)

\* that name for every object of the target
ExpectedFullName ==
    [a \in DOMAIN TargetMem |->
        LET o == GetBasicInfo(a).obj
        IN  RootFirstName(o.name, o.type_name, o.outer, max_concat)]

\* C12: every fullName composed by the outer walk lists the names root-first
\* with ":" exactly between a property or function and an outer that is
\* neither, and "." otherwise, whether the outers were cached or resolved
\* shallowly; class Actor under package /Script/Engine is "/Script/Engine.Actor"
C12_SeparatorRule ==
    /\ \A a \in DOMAIN byAddress :
          byAddress[a].full_name # <<>>
          => byAddress[a].full_name = ExpectedFullName[a]
    /\ \A t \in Threads :
          th[t].pc \in {"tier2", "count"} /\ th[t].obj.full_name # <<>>
          => th[t].obj.full_name = ExpectedFullName[th[t].address]
    /\ ObjA \in DOMAIN byAddress /\ byAddress[ObjA].full_name # <<>>
          => byAddress[ObjA].full_name = sScriptEngine \o sDot \o sActor

\* the function f of class Actor has been composed with the colon, under a
\* name composed with the dot
C12_Witness ==
    /\ ObjF \in DOMAIN byAddress
    /\ byAddress[ObjF].full_name = sScriptEngine \o sDot \o sActor \o sColon \o <<"f">>
    /\ ObjA \in DOMAIN byAddress

(***************************************************************************)
(* The session: AppState and the commands that attach, resolve the base    *)
(* addresses and parse.  A handle is a number the operating system hands   *)
(* out once; the catalog and the name pool are followed by the handle      *)
(* their contents were read through.                                       *)
(***************************************************************************)
MaxCmds == 5
MaxOpens == 2

Targets == {1, 2}

\* what BaseAddressDumper finds in each target's main module
Image ==
    1 :> [fname_pool |-> Some(458752), guobject_array |-> Some(524288),
          guobject_element_size |-> Some(24), gworld |-> Some(589824)]
    @@
    2 :> [fname_pool |-> Some(655360), guobject_array |-> Some(720896),
          guobject_element_size |-> Some(24), gworld |-> None]

\* HANDLE::is_invalid
IsInvalid(handle) == handle = 0

\* ReadProcessMemory and VirtualQueryEx answer on an open handle only
Readable(p) == p.memory \in os_open

\* BaseAddressDumper::get_*: the scans read through the process's handle
Resolve(p, k) == IF Readable(p) THEN Image[p.pid][k] ELSE None

\* the copy of the reader made by Process::clone carries the same handle
Memory_clone(memory) == memory

\* #[derive(Clone)] on Process
Process_clone(p) == [pid |-> p.pid, memory |-> Memory_clone(p.memory)]

CloseCount(h) == IF h \in DOMAIN closes THEN closes[h] ELSE 0

\* Drop for Memory: CloseHandle on every handle that is not the invalid value
DropOpen(dropped) == os_open \ {h \in dropped : ~IsInvalid(h)}
DropCloses(dropped) ==
    [h \in DOMAIN closes \cup {d \in dropped : ~IsInvalid(d)} |->
        IF h \in dropped THEN CloseCount(h) + 1 ELSE CloseCount(h)]

\* what a command can see of the session when it is issued
Seen ==
    [attached |-> process # None,
     anchors |-> {k \in AnchorNames : base_addresses[k] # None},
     named |-> process # None /\ <<"parse_fname_pool", process[1].memory>> \in completed,
     ready |-> process # None /\ <<"parse_guobject_array", process[1].memory>> \in completed]

Result(cmd, ok, msg, at) == [cmd |-> cmd, ok |-> ok, msg |-> msg, at |-> at]

sNoProcess == "No process attached"
sNoFNamePool == "FNamePool address not resolved. Please call get_fname_pool_address first."
sNoGUObjectArray == "GUObjectArray address not resolved. Please call get_guobject_array_address first."
sNoElementSize == "GUObjectArray element size not resolved. Please call get_guobject_array_address first."
sObjectNotFound == "Object not found"
sPoolNotParsed == "FNamePool not yet parsed. Please parse GUObjectArray first."
sOpenFailed == "Failed to open process"
sNoModule == "Failed to find main module"
sNotFound == "Could not find with any of the known AOB signatures"

\* Process::attach, called by attach_to_process
attach_to_process(pid, outcome) ==
    /\ ncmds < MaxCmds
    /\ ncmds' = ncmds + 1
    /\ outcome # "open_fails" => nopens < MaxOpens
    /\ \E handle \in {nopens + 1} :
       \E old \in {IF process = None THEN {} ELSE {process[1].memory}} :
          CASE outcome = "open_fails" ->
                 /\ sres' = Result("attach_to_process", FALSE, sOpenFailed, Seen)
                 /\ UNCHANGED <<process, os_open, closes, nopens>>
            [] outcome = "module_fails" ->
                 /\ sres' = Result("attach_to_process", FALSE, sNoModule, Seen)
                 /\ os_open' = os_open \cup {handle}
                 /\ nopens' = nopens + 1
                 /\ UNCHANGED <<process, closes>>
            [] outcome = "ok" ->
                 /\ process' = Some([pid |-> pid, memory |-> handle])
                 /\ os_open' = DropOpen(old) \cup {handle}
                 /\ closes' = DropCloses(old)
                 /\ nopens' = nopens + 1
                 /\ sres' = Result("attach_to_process", TRUE, "", Seen)
    /\ UNCHANGED <<base_addresses, holds, jobs, completed>>
    /\ UNCHANGED <<catalogVars, poolVars, readerVars, callVars>>

\* get_fname_pool_address, get_guobject_array_address and get_gworld_address:
\* keys are the fields of BaseAddresses the command stores
ResolveCommand(cmd, keys) ==
    /\ ncmds < MaxCmds
    /\ ncmds' = ncmds + 1
    /\ IF process = None
       THEN /\ sres' = Result(cmd, FALSE, sNoProcess, Seen)
            /\ UNCHANGED <<base_addresses, holds>>
       ELSE IF \E k \in keys : Resolve(process[1], k) = None
       THEN /\ sres' = Result(cmd, FALSE, sNotFound, Seen)
            /\ UNCHANGED <<base_addresses, holds>>
       ELSE /\ base_addresses' =
                 [k \in AnchorNames |->
                    IF k \in keys THEN Resolve(process[1], k) ELSE base_addresses[k]]
            /\ holds' = [k \in Fields |->
                           IF k \in keys THEN process[1].memory ELSE holds[k]]
            /\ sres' = Result(cmd, TRUE, "", Seen)
    /\ UNCHANGED <<process, os_open, closes, jobs, completed, nopens>>
    /\ UNCHANGED <<catalogVars, poolVars, readerVars, callVars>>

get_fname_pool_address == ResolveCommand("get_fname_pool_address", {"fname_pool"})

get_guobject_array_address ==
    ResolveCommand("get_guobject_array_address", {"guobject_array", "guobject_element_size"})

get_gworld_address == ResolveCommand("get_gworld_address", {"gworld"})

Job(cmd, p, at) == [id |-> ncmds, cmd |-> cmd, process |-> p, at |-> at]

\* parse_fname_pool up to spawn_blocking: the clone of the process is made
\* before the base address is looked up, and dropped when the lookup fails
ParseNamesBegin ==
    /\ ncmds < MaxCmds
    /\ ncmds' = ncmds + 1
    /\ IF process = None
       THEN /\ sres' = Result("parse_fname_pool", FALSE, sNoProcess, Seen)
            /\ UNCHANGED <<os_open, closes, jobs>>
       ELSE \E p \in {Process_clone(process[1])} :
            IF base_addresses.fname_pool = None
            THEN /\ sres' = Result("parse_fname_pool", FALSE, sNoFNamePool, Seen)
                 /\ os_open' = DropOpen({p.memory})
                 /\ closes' = DropCloses({p.memory})
                 /\ UNCHANGED jobs
            ELSE /\ jobs' = jobs \cup {Job("parse_fname_pool", p, Seen)}
                 /\ UNCHANGED <<sres, os_open, closes>>
    /\ UNCHANGED <<process, base_addresses, holds, completed, nopens>>
    /\ UNCHANGED <<catalogVars, poolVars, readerVars, callVars>>

\* the closure of parse_fname_pool: parse_pool returns Ok whatever the reads
\* gave, nothing is stored in AppState, and the closure drops its clone
ParseNamesEnd(j) ==
    /\ j \in jobs
    /\ j.cmd = "parse_fname_pool"
    /\ jobs' = jobs \ {j}
    /\ sres' = Result("parse_fname_pool", TRUE, "", j.at)
    /\ completed' = completed \cup {<<"parse_fname_pool", j.process.memory>>}
    /\ os_open' = DropOpen({j.process.memory})
    /\ closes' = DropCloses({j.process.memory})
    /\ UNCHANGED <<process, base_addresses, holds, nopens, ncmds>>
    /\ UNCHANGED <<catalogVars, poolVars, readerVars, callVars>>

\* the first base address parse_guobject_array finds missing
MissingAnchor ==
    IF base_addresses.fname_pool = None THEN sNoFNamePool
    ELSE IF base_addresses.guobject_array = None THEN sNoGUObjectArray
    ELSE IF base_addresses.guobject_element_size = None THEN sNoElementSize
    ELSE ""

\* parse_guobject_array up to spawn_blocking: a new FNamePool over the stored
\* base address replaces the stored pool, and the catalog is cleared
ParseObjectsBegin ==
    /\ ncmds < MaxCmds
    /\ ncmds' = ncmds + 1
    /\ IF process = None
       THEN /\ sres' = Result("parse_guobject_array", FALSE, sNoProcess, Seen)
            /\ UNCHANGED <<os_open, closes, jobs, holds>>
       ELSE \E p \in {Process_clone(process[1])} :
            IF MissingAnchor # ""
            THEN /\ sres' = Result("parse_guobject_array", FALSE, MissingAnchor, Seen)
                 /\ os_open' = DropOpen({p.memory})
                 /\ closes' = DropCloses({p.memory})
                 /\ UNCHANGED <<jobs, holds>>
            ELSE /\ jobs' = jobs \cup {Job("parse_guobject_array", p, Seen)}
                 /\ holds' = [holds EXCEPT !["name_pool"] = holds["fname_pool"],
                                           !["catalog"] = 0]
                 /\ UNCHANGED <<sres, os_open, closes>>
    /\ UNCHANGED <<process, base_addresses, completed, nopens>>
    /\ UNCHANGED <<catalogVars, poolVars, readerVars, callVars>>

\* the closure of parse_guobject_array: parse_array skips every slot it
\* cannot read and returns Ok, and the closure drops its clone
ParseObjectsEnd(j) ==
    /\ j \in jobs
    /\ j.cmd = "parse_guobject_array"
    /\ jobs' = jobs \ {j}
    /\ sres' = Result("parse_guobject_array", TRUE, "", j.at)
    /\ completed' = completed \cup {<<"parse_guobject_array", j.process.memory>>}
    /\ holds' = IF Readable(j.process)
                THEN [holds EXCEPT !["catalog"] = j.process.memory]
                ELSE holds
    /\ os_open' = DropOpen({j.process.memory})
    /\ closes' = DropCloses({j.process.memory})
    /\ UNCHANGED <<process, base_addresses, nopens, ncmds>>
    /\ UNCHANGED <<catalogVars, poolVars, readerVars, callVars>>

\* get_packages in the session: no prerequisite is looked at
SessionGetPackages ==
    /\ ncmds < MaxCmds
    /\ ncmds' = ncmds + 1
    /\ sres' = Result("get_packages", TRUE, "", Seen)
    /\ UNCHANGED <<process, base_addresses, holds, os_open, closes, jobs, completed, nopens>>
    /\ UNCHANGED <<catalogVars, poolVars, readerVars, callVars>>

\* the catalog can hold a record: a parse has filled it or is filling it
CatalogMayHold ==
    \/ holds["catalog"] # 0
    \/ \E j \in jobs : j.cmd = "parse_guobject_array" /\ Readable(j.process)

\* get_object_details up to the name pool lookup; found: the address is in
\* cache_by_address
get_object_details(found) ==
    /\ ncmds < MaxCmds
    /\ ncmds' = ncmds + 1
    /\ found => CatalogMayHold
    /\ sres' = IF ~found THEN Result("get_object_details", FALSE, sObjectNotFound, Seen)
               ELSE IF process = None THEN Result("get_object_details", FALSE, sNoProcess, Seen)
               ELSE IF holds["name_pool"] = 0
               THEN Result("get_object_details", FALSE, sPoolNotParsed, Seen)
               ELSE Result("get_object_details", TRUE, "", Seen)
    /\ UNCHANGED <<process, base_addresses, holds, os_open, closes, jobs, completed, nopens>>
    /\ UNCHANGED <<catalogVars, poolVars, readerVars, callVars>>

\* AppState::new() with the catalog, the name pool and the reader at rest
InitSession ==
    /\ CatalogIdle
    /\ PoolIdle
    /\ SessionIdle
    /\ ReaderIdle
    /\ CallIdle

NextSession ==
    \/ \E pid \in Targets : \E outcome \in {"open_fails", "module_fails", "ok"} :
          attach_to_process(pid, outcome)
    \/ get_fname_pool_address
    \/ get_guobject_array_address
    \/ get_gworld_address
    \/ ParseNamesBegin
    \/ \E j \in jobs : ParseNamesEnd(j)
    \/ ParseObjectsBegin
    \/ \E j \in jobs : ParseObjectsEnd(j)
    \/ SessionGetPackages
    \/ \E found \in BOOLEAN : get_object_details(found)

SpecSession == InitSession /\ [][NextSession]_vars

ResolveCommands ==
    {"get_fname_pool_address", "get_guobject_array_address", "get_gworld_address"}

\* a parse_guobject_array command was admitted in this step
ObjectsParseStarted ==
    \E j \in jobs' \ jobs : j.cmd = "parse_guobject_array"

\* C16: session commands succeed only in lifecycle order: a base address is
\* resolved only with a process attached, parse_fname_pool returns Ok only
\* with the name pool's base address resolved, parse_guobject_array returns
\* Ok only after a parse_fname_pool has returned Ok, and a parse_guobject_array
\* that is admitted leaves the catalog empty before it is rebuilt
C16_LifecycleOrder ==
    [][/\ (sres'.ok /\ sres'.cmd \in ResolveCommands) => sres'.at.attached
       /\ (sres'.ok /\ sres'.cmd = "parse_fname_pool")
              => (sres'.at.attached /\ "fname_pool" \in sres'.at.anchors)
       /\ (sres'.ok /\ sres'.cmd = "parse_guobject_array")
              => (\E c \in completed' : c[1] = "parse_fname_pool")
       /\ ObjectsParseStarted => holds'["catalog"] = 0]_vars

QueryCommands == {"get_packages", "get_object_details"}

\* the messages of the source of the form "... not yet parsed. Please parse
\* <prereq> first."
NotYetParsedMessages == {sPoolNotParsed}

\* C17: a query command issued before parse_guobject_array has completed in
\* the session returns an error whose message has the form "... not yet
\* parsed. Please parse <prereq> first."
C17_QueryBeforeParseIsRefused ==
    (sres.cmd \in QueryCommands /\ ~sres.at.ready)
        => (~sres.ok /\ sres.msg \in NotYetParsedMessages)

\* C18: with a process attached, no base address, nor the stored name pool,
\* nor the catalog holds a value read through the handle of a process that
\* was attached before: each is absent or was obtained in this session
C18_StateIsSessionScoped ==
    process # None => \A k \in Fields : holds[k] \in {0, process[1].memory}

MaxReads == 2
MaxSize == 3

ReadAddresses == {65536, 65537, 131072}

\* the byte the target holds at an address; no byte of the target is zero
TargetByte(address) == (address % 250) + 1

TargetBytes(address, size) == [i \in 1..size |-> TargetByte(address + i - 1)]

\* the outcomes of one ReadProcessMemory call for size bytes
OsOutcomes(size) ==
    {[success |-> ok, bytes_read |-> n] : ok \in BOOLEAN, n \in 0..size}

\* the caller's buffer after the call: the bytes copied, then what it held
Filled(address, size, os, before) ==
    [i \in 1..size |-> IF i <= os.bytes_read THEN TargetByte(address + i - 1) ELSE before[i]]

\* vec![0u8; size]
ZeroBuffer(size) == [i \in 1..size |-> 0]

\* Memory::read_bytes
Memory_read_bytes(address, size, os) ==
    IF os.success /\ os.bytes_read > 0
    THEN Some(Filled(address, size, os, ZeroBuffer(size)))
    ELSE None

\* Memory::try_read::<T>, size = size_of::<T>(); the buffer is read only
\* when every byte of it was written
Memory_try_read(address, size, os) ==
    IF os.success /\ os.bytes_read = size
    THEN Some(TargetBytes(address, size))
    ELSE None

\* Memory::read::<T>: try_read with an error message
Memory_read(address, size, os) == Memory_try_read(address, size, os)

PointerSize == 8

\* Memory::read_pointer and Memory::try_read_pointer: read::<u64>
Memory_read_pointer(address, os) == Memory_read(address, PointerSize, os)

Read(op, address, size, os, result) ==
    [op |-> op, address |-> address, size |-> size, success |-> os.success,
     bytes_read |-> os.bytes_read, result |-> result]

CallReadBytes(address, size, os) ==
    /\ nreads < MaxReads
    /\ nreads' = nreads + 1
    /\ rd' = Read("read_bytes", address, size, os, Memory_read_bytes(address, size, os))
    /\ UNCHANGED <<catalogVars, poolVars, sessVars, callVars>>

CallRead(address, size, os) ==
    /\ nreads < MaxReads
    /\ nreads' = nreads + 1
    /\ rd' = Read("read", address, size, os, Memory_read(address, size, os))
    /\ UNCHANGED <<catalogVars, poolVars, sessVars, callVars>>

CallReadPointer(address, os) ==
    /\ nreads < MaxReads
    /\ nreads' = nreads + 1
    /\ rd' = Read("read_pointer", address, PointerSize, os, Memory_read_pointer(address, os))
    /\ UNCHANGED <<catalogVars, poolVars, sessVars, callVars>>

\* the sizes of the types the program reads: u8, u16, i32, u64
TypeSizes == {1, 2, 4, 8}

InitReader ==
    /\ CatalogIdle
    /\ PoolIdle
    /\ SessionIdle
    /\ ReaderIdle
    /\ CallIdle

NextReader ==
    \/ \E a \in ReadAddresses : \E size \in 0..MaxSize : \E os \in OsOutcomes(size) :
          CallReadBytes(a, size, os)
    \/ \E a \in ReadAddresses : \E size \in TypeSizes : \E os \in OsOutcomes(size) :
          CallRead(a, size, os)
    \/ \E a \in ReadAddresses : \E os \in OsOutcomes(PointerSize) :
          CallReadPointer(a, os)

SpecReader == InitReader /\ [][NextReader]_vars

\* C20: a reader call fails when the operating system reports fewer bytes
\* read than requested, and read_bytes(a, n) returns an error or exactly the
\* n bytes the target holds at a, never a buffer that is only partly filled
C20_PartialReadFails ==
    /\ (rd.op # "" /\ rd.bytes_read < rd.size) => rd.result = None
    /\ (rd.op = "read_bytes" /\ rd.result # None)
           => rd.result = Some(TargetBytes(rd.address, rd.size))

(***************************************************************************)
(* BaseAddressDumper::detect_element_size.  The target is a layout: the    *)
(* array's base holds, at offset at, a pointer to a chunk table (or, when  *)
(* flat, to the entries themselves); the entries lie stride bytes apart,   *)
(* each a pointer to an object whose i32 at +0xC is its index plus skew.   *)
(* A second array, flat and of stride 8, may hang 0x20 further on.         *)
(* The memory is made of 32-bit words; a pointer is two of them.           *)
(***************************************************************************)
\* where the layout puts its parts in the target, and their sizes
Fixture ==
    [base |-> 1048576, table |-> 2097152, chunk |-> 3145728, second |-> 3670016,
     objects |-> 4194304, vtable |-> 5242880, code |-> 6291456,
     region |-> 4096, object_size |-> 256, second_at |-> 32, second_stride |-> 8]
DBase == Fixture.base
DTable == Fixture.table
DChunk == Fixture.chunk
DSecond == Fixture.second
SecondAt == Fixture.second_at
SecondStride == Fixture.second_stride
DObjects == Fixture.objects
DVtable == Fixture.vtable
DCode == Fixture.code
DRegion == Fixture.region
DObjectSize == Fixture.object_size

Strides == {8, 12, 16, 24, 32}
Layouts ==
    [stride : Strides, at : {-80, 16, 512}, skew : {-1, 0, 2, 3},
     entries : {10, 11}, flat : BOOLEAN, second : BOOLEAN]

\* the 32-bit word the target holds at a, None where nothing is mapped
Word(L, a) ==
    IF a % 4 # 0 THEN None
    ELSE IF a >= DBase - DRegion /\ a < DBase + DRegion
    THEN Some(IF a = DBase + L.at THEN (IF L.flat THEN DChunk ELSE DTable)
              ELSE IF L.second /\ a = DBase + L.at + SecondAt THEN DSecond
              ELSE 0)
    ELSE IF a >= DTable /\ a < DTable + DRegion
    THEN Some(IF a = DTable THEN DChunk ELSE 0)
    ELSE IF a >= DChunk /\ a < DChunk + DRegion
    THEN Some(IF (a - DChunk) % L.stride = 0 /\ (a - DChunk) \div L.stride < L.entries
              THEN DObjects + ((a - DChunk) \div L.stride) * DObjectSize
              ELSE 0)
    ELSE IF a >= DSecond /\ a < DSecond + DRegion
    THEN Some(IF (a - DSecond) % SecondStride = 0 /\ (a - DSecond) \div SecondStride < L.entries
              THEN DObjects + ((a - DSecond) \div SecondStride) * DObjectSize
              ELSE 0)
    ELSE IF a >= DObjects /\ a < DObjects + DRegion
    THEN Some(IF (a - DObjects) % DObjectSize = 0 THEN DVtable
              ELSE IF (a - DObjects) % DObjectSize = OffId
                   THEN (a - DObjects) \div DObjectSize + L.skew
              ELSE 0)
    ELSE IF a >= DVtable /\ a < DVtable + DRegion
    THEN Some(IF a = DVtable THEN DCode ELSE 0)
    ELSE IF a >= DCode /\ a < DCode + DRegion
    THEN Some(IF a = DCode THEN DCode + 64 ELSE 0)
    ELSE None

\* process.memory.read::<i32>
DReadI32(L, a) == Word(L, a)

\* process.memory.read_pointer: the low word, FarAddress when the high word
\* is not zero
DReadPointer(L, a) ==
    IF a = FarAddress \/ Word(L, a) = None \/ Word(L, a + 4) = None THEN None
    ELSE IF Word(L, a + 4)[1] # 0 \/ Word(L, a)[1] < 0 THEN Some(FarAddress)
    ELSE Word(L, a)

\* Ok(p) if p > 0x10000
PlausiblePointer(L, a) ==
    IF DReadPointer(L, a) # None /\ DReadPointer(L, a)[1] > MinPointer
    THEN DReadPointer(L, a)
    ELSE None

\* depth derefences from a, None as soon as one is not a plausible pointer
RECURSIVE Deref(_, _, _)
Deref(L, a, depth) ==
    IF depth = 0 THEN Some(a)
    ELSE IF PlausiblePointer(L, a) = None THEN None
    ELSE Deref(L, PlausiblePointer(L, a)[1], depth - 1)

AbsDiff(a, b) == IF a >= b THEN a - b ELSE b - a

IndexTolerance == 2
LastEntry == 10
FallbackSize == 24
MinStride == 4
MaxStride == 28
FirstProbe == -80
LastProbe == 512
ProbeStep == 4

\* the body of the loop over n: the entry at addr_level_0 + n is an object
\* whose index is within the tolerance of n / k
EntryValid(L, addr_level_0, n, k) ==
    /\ PlausiblePointer(L, WrapAdd(addr_level_0, n)) # None
    /\ \E obj_addr \in {PlausiblePointer(L, WrapAdd(addr_level_0, n))[1]} :
          /\ Deref(L, obj_addr, 2) # None
          /\ \E read_index \in {IF DReadI32(L, WrapAdd(obj_addr, OffId)) = None THEN -1
                                ELSE DReadI32(L, WrapAdd(obj_addr, OffId))[1]} :
                ~(read_index < 0 \/ AbsDiff(read_index, n \div k) > IndexTolerance)

\* all_valid after the loop over n = 0, k, ..., 10 * k
AllValid(L, addr_level_0, k) ==
    \A e \in 0..LastEntry : EntryValid(L, addr_level_0, e * k, k)

\* the loop over k = 0x4..=0x1C in steps of 4, from k on
RECURSIVE SizeLoop(_, _, _)
SizeLoop(L, addr_level_0, k) ==
    IF k > MaxStride THEN None
    ELSE IF AllValid(L, addr_level_0, k) THEN Some(k)
    ELSE SizeLoop(L, addr_level_0, k + MinStride)

LevelLoop_one_level(L, addr_level_0, j) ==
    IF j >= 1 THEN None ELSE SizeLoop(L, addr_level_0, MinStride)

\* the loop over the dereference levels j = 0, 1, from j on
RECURSIVE LevelLoop(_, _, _)
LevelLoop(L, addr_level_0, j) ==
    IF j >= 2 THEN None
    ELSE IF SizeLoop(L, addr_level_0, MinStride) # None THEN SizeLoop(L, addr_level_0, MinStride)
    ELSE IF PlausiblePointer(L, addr_level_0) = None THEN None
    ELSE LevelLoop(L, PlausiblePointer(L, addr_level_0)[1], j + 1)

\* one probe offset: the entry must be a pointer that dereferences 3 times
ProbeAt(L, base_address, i_raw) ==
    IF PlausiblePointer(L, base_address + i_raw) = None THEN None
    ELSE IF Deref(L, PlausiblePointer(L, base_address + i_raw)[1], 3) = None THEN None
    ELSE LevelLoop(L, PlausiblePointer(L, base_address + i_raw)[1], 0)

\* (-0x50i32..=0x200).step_by(4)
ProbeOffsets == {i \in FirstProbe..LastProbe : (i - FirstProbe) % ProbeStep = 0}

\* the loop over the probe offsets returns at the first offset, in
\* ascending order, whose probe returns, and the fallback follows the loop
ProbeLoop(L, base_address) ==
    LET hits == {i \in ProbeOffsets : ProbeAt(L, base_address, i) # None}
    IN  IF hits = {} THEN FallbackSize
        ELSE ProbeAt(L, base_address, CHOOSE i \in hits : \A o \in hits : i <= o)[1]

detect_element_size(L, base_address) == Some(ProbeLoop(L, base_address))

DetectCall ==
    /\ ret = NotCalled
    /\ ret' = Returns(detect_element_size(call, DBase))
    /\ UNCHANGED <<call, catalogVars, poolVars, sessVars, readerVars>>

InitDetect ==
    /\ CatalogIdle
    /\ PoolIdle
    /\ SessionIdle
    /\ ReaderIdle
    /\ call \in Layouts
    /\ ret = NotCalled

NextDetect == DetectCall

SpecDetect == InitDetect /\ [][NextDetect]_vars

\* C21: on an array whose entries lie at stride 0x18 and carry the ids 0..10
\* detect_element_size returns 0x18, and on the same array at stride 0x20 it
\* returns 0x20
C21_DetectsStride ==
    (ret # NotCalled /\ call.skew = 0 /\ call.entries = 11 /\ call.at = 16
        /\ ~call.flat /\ call.stride \in {24, 32})
        => ret = Returns(Some(call.stride))

StrideValues == {k \in MinStride..MaxStride : k % MinStride = 0}

\* the address the strides are tried at for probe offset i_raw and level j
LevelAddress(L, i_raw, j) == Deref(L, DBase + i_raw, j + 1)

\* stride k validates at probe offset i_raw and level j
Validates(L, i_raw, j, k) ==
    /\ LevelAddress(L, i_raw, j) # None
    /\ AllValid(L, LevelAddress(L, i_raw, j)[1], k)

\* the (offset, level, stride) triples that validate
Validating(L) ==
    {t \in ProbeOffsets \X {0, 1} \X StrideValues : Validates(L, t[1], t[2], t[3])}

\* scan order: offsets ascending, then level 0 before level 1, then k ascending
ScansBefore(s, t) ==
    \/ s[1] < t[1]
    \/ s[1] = t[1] /\ s[2] < t[2]
    \/ s[1] = t[1] /\ s[2] = t[2] /\ s[3] <= t[3]

\* every entry of a validated stride dereferences to an object whose id at
\* +0xC is within 2 of its position
WithinTolerance(L, t) ==
    \A e \in 0..LastEntry :
        \E p \in {DReadPointer(L, LevelAddress(L, t[1], t[2])[1] + e * t[3])} :
            /\ p # None
            /\ DReadI32(L, p[1] + OffId) # None
            /\ AbsDiff(DReadI32(L, p[1] + OffId)[1], e) <= IndexTolerance

\* C22: detect_element_size returns the first stride that validates in scan
\* order (probe offsets ascending, level 0 before level 1, k ascending over
\* 4..28 in steps of 4), a validated stride has all 11 entries within 2 of
\* their position, it returns 0x18 when nothing validates, and it never fails
\* nor returns another value
C22_FirstValidStrideWins ==
    ret # NotCalled =>
        /\ ret[1] # None
        /\ ret[1][1] \in StrideValues
        /\ \E valid \in {Validating(call)} :
              /\ valid = {} => ret[1][1] = FallbackSize
              /\ valid # {} =>
                    \E t \in valid :
                       /\ \A o \in valid : ScansBefore(t, o)
                       /\ ret[1][1] = t[3]
                       /\ WithinTolerance(call, t)

\* a detection decided by scan order: two arrays of different stride validate
C22_Witness ==
    /\ ret # NotCalled
    /\ call.second
    /\ \E s, t \in Validating(call) : s[3] # t[3] /\ s[1] < t[1] /\ ret[1][1] = s[3]

(***************************************************************************)
(* extract_package_name on its own: every string of up to MaxInputLen      *)
(* characters over a small alphabet, and the full names of the examples.   *)
(***************************************************************************)
MaxInputLen == 4

InputAlphabet == {"/", ".", ":", "a"}

sScriptEngineActor == sScriptEngine \o sDot \o sActor
sGameMapBpFn ==
    <<"/","G","a","m","e","/","M","a","p","/","B","P",".","B","P","_","C",":","F","n">>
sNoSlashes == <<"N","o","S","l","a","s","h","e","s">>
sGameMap == <<"/","G","a","m","e","/","M","a","p">>
sGameMapBp == sGameMap \o <<"/","B","P">>

PackageInputs ==
    UNION {[1..n -> InputAlphabet] : n \in 0..MaxInputLen}
        \cup {sScriptEngineActor, sGameMapBpFn, sNoSlashes}

PackageCall ==
    /\ ret = NotCalled
    /\ ret' = Returns(extract_package_name(call))
    /\ UNCHANGED <<call, catalogVars, poolVars, sessVars, readerVars>>

InitPackage ==
    /\ CatalogIdle
    /\ PoolIdle
    /\ SessionIdle
    /\ ReaderIdle
    /\ call \in PackageInputs
    /\ ret = NotCalled

NextPackage == PackageCall

SpecPackage == InitPackage /\ [][NextPackage]_vars

\* C25: extract_package_name maps "/Script/Engine.Actor" to "/Script/Engine",
\* "/Game/Map/BP.BP_C:Fn" to "/Game/Map/BP" and "NoSlashes" to "", and
\* returns the empty string for every input with fewer than two '/'
C25_PackageExamples ==
    ret # NotCalled =>
        /\ call = sScriptEngineActor => ret[1] = sScriptEngine
        /\ call = sGameMapBpFn => ret[1] = sGameMapBp
        /\ call = sNoSlashes => ret[1] = <<>>
        /\ Occurrences(call, <<"/">>) < 2 => ret[1] = <<>>

\* C25 as amended: "/Game/Map/BP.BP_C:Fn" is cut at its third '/', giving
\* "/Game/Map"; the other examples and the rule for fewer than two '/' stand
C25_PackageExamplesAmended ==
    ret # NotCalled =>
        /\ call = sScriptEngineActor => ret[1] = sScriptEngine
        /\ call = sGameMapBpFn => ret[1] = sGameMap
        /\ call = sNoSlashes => ret[1] = <<>>
        /\ Occurrences(call, <<"/">>) < 2 => ret[1] = <<>>

C25_Witness == ret # NotCalled /\ call = sGameMapBpFn /\ ret[1] = sGameMap

(***************************************************************************)
(* Scanner.  A signature is a string, a sequence of characters; a pattern  *)
(* is a sequence of Option<u8>.  The scanned memory M has its regions in   *)
(* address order, free ones included, and the byte at every address of a   *)
(* committed region.                                                       *)
(***************************************************************************)
HexDigits == <<"0","1","2","3","4","5","6","7","8","9","A","B","C","D","E","F">>
LowerHexDigits == <<"0","1","2","3","4","5","6","7","8","9","a","b","c","d","e","f">>

IsHexDigit(c) == \E d \in 1..16 : HexDigits[d] = c \/ LowerHexDigits[d] = c
DigitValue(c) == (CHOOSE d \in 1..16 : HexDigits[d] = c \/ LowerHexDigits[d] = c) - 1

MaxU8 == 255

\* the value of a string of hex digits, capped above MaxU8
RECURSIVE HexValue(_, _)
HexValue(s, acc) ==
    IF s = <<>> THEN acc
    ELSE IF acc > MaxU8 THEN acc
    ELSE HexValue(Tail(s), acc * 16 + DigitValue(Head(s)))

\* u8::from_str_radix(s, 16).ok(): digits only, at least one, no overflow
from_str_radix(s) ==
    IF s = <<>> \/ \E k \in 1..Len(s) : ~IsHexDigit(s[k]) THEN None
    ELSE IF HexValue(s, 0) > MaxU8 THEN None
    ELSE Some(HexValue(s, 0))

\* str::split_whitespace: the maximal runs of characters other than " "
RECURSIVE split_whitespace(_, _)
split_whitespace(s, token) ==
    IF s = <<>> THEN (IF token = <<>> THEN <<>> ELSE <<token>>)
    ELSE IF Head(s) = " "
         THEN (IF token = <<>> THEN <<>> ELSE <<token>>) \o split_whitespace(Tail(s), <<>>)
    ELSE split_whitespace(Tail(s), Append(token, Head(s)))

sWildcard == <<"?">>
sWildcard2 == <<"?", "?">>

\* the closure of parse_signature: None for a wildcard and for whatever
\* from_str_radix refuses
PatternByte(token) ==
    IF token = sWildcard \/ token = sWildcard2 THEN None ELSE from_str_radix(token)

\* Scanner::parse_signature
parse_signature(signature) ==
    [k \in 1..Len(split_whitespace(signature, <<>>)) |->
        PatternByte(split_whitespace(signature, <<>>)[k])]

\* the pattern matches the buffer at offset i (counted from 0)
MatchesAt(buffer, pattern, i) ==
    \A j \in 1..Len(pattern) : pattern[j] = None \/ buffer[i + j] = pattern[j][1]

\* the numbers of a set in ascending order
InOrder(S) == [k \in 1..Cardinality(S) |-> CHOOSE x \in S : Cardinality({y \in S : y <= x}) = k]

\* the main loop of find_pattern_in_buffer from offset i on: the offsets
\* that match, pushed as i grows
FindFrom(buffer, pattern, i) ==
    InOrder({j \in i..(Len(buffer) - Len(pattern)) : MatchesAt(buffer, pattern, j)})

\* Scanner::find_pattern_in_buffer
find_pattern_in_buffer(buffer, pattern) ==
    IF pattern = <<>> \/ Len(buffer) < Len(pattern) THEN <<>>
    ELSE FindFrom(buffer, pattern, 0)

\* VirtualQueryEx: the region that holds the address, None when it fails
VirtualQueryEx(M, address) ==
    IF \E k \in 1..Len(M.regions) :
          M.regions[k].base <= address /\ address < M.regions[k].base + M.regions[k].size
    THEN Some(CHOOSE r \in {M.regions[k] : k \in 1..Len(M.regions)} :
                 r.base <= address /\ address < r.base + r.size)
    ELSE None

\* "Enumerate memory regions": the (base, size) pairs pushed and the number
\* of VirtualQueryEx calls made.  The loop starts in the region that holds
\* current_address and goes from each region to the one that begins where
\* it ends, until it reaches end_address or an address no region holds.
EnumerateRegions(M, current_address, end_address) ==
    LET n == Len(M.regions)
        contains(k, a) == M.regions[k].base <= a /\ a < M.regions[k].base + M.regions[k].size
        first == IF \E k \in 1..n : contains(k, current_address)
                 THEN CHOOSE k \in 1..n : contains(k, current_address) ELSE 0
        follows(k) == /\ M.regions[k].base = M.regions[k - 1].base + M.regions[k - 1].size
                      /\ M.regions[k].base < end_address
        queried == {j \in first..n : \A k \in (first + 1)..j : follows(k)}
        final == CHOOSE j \in queried : \A k \in queried : k <= j
        after == M.regions[final].base + M.regions[final].size
        pushed == {k \in queried : M.regions[k].committed}
    IN  IF ~(current_address < end_address) THEN [regions |-> <<>>, queries |-> 0]
        ELSE IF first = 0 THEN [regions |-> <<>>, queries |-> 1]
        ELSE [regions |->
                  [k \in 1..Cardinality(pushed) |->
                      IF InOrder(pushed)[k] = first
                      THEN <<current_address,
                             M.regions[first].base + M.regions[first].size - current_address>>
                      ELSE <<M.regions[InOrder(pushed)[k]].base,
                             M.regions[InOrder(pushed)[k]].size>>],
              queries |-> Cardinality(queried)
                          + (IF after < end_address /\ final = n THEN 1 ELSE 0)]

\* memory.read_bytes(base, size) on a committed region
RegionBytes(M, base, size) == [k \in 1..size |-> M.byte[base + k - 1]]

\* the offsets found in the k-th region, as addresses
RegionHits(M, regions, pattern, k) ==
    LET found == find_pattern_in_buffer(RegionBytes(M, regions[k][1], regions[k][2]), pattern)
    IN  {regions[k][1] + found[j] : j \in 1..Len(found)}

\* the flat_map over the regions, in their order: the regions ascend and do
\* not overlap, so the hits are in address order
SearchRegions(M, regions, pattern) ==
    InOrder(UNION {RegionHits(M, regions, pattern, k) : k \in 1..Len(regions)})

\* Scanner::scan: its result, with the VirtualQueryEx and read_bytes calls it made
scan(M, start_address, end_address, signature) ==
    LET pattern == parse_signature(signature)
        listed == EnumerateRegions(M, start_address, end_address)
    IN  IF pattern = <<>>
        THEN [ok |-> FALSE, hits |-> <<>>, queries |-> 0, reads |-> 0]
        ELSE [ok |-> TRUE, hits |-> SearchRegions(M, listed.regions, pattern),
              queries |-> listed.queries, reads |-> Len(listed.regions)]

(***************************************************************************)
(* Scanner::scan over every short signature.                               *)
(***************************************************************************)
MaxSigLen == 4

SigAlphabet == {"4", "F", "?", "Z", " "}

Signatures == UNION {[1..n -> SigAlphabet] : n \in 0..MaxSigLen}

\* a module of one committed region between two free ones
SmallModule ==
    [regions |-> <<[base |-> 0, size |-> 65536, committed |-> FALSE],
                   [base |-> 65536, size |-> 4, committed |-> TRUE],
                   [base |-> 65540, size |-> 4, committed |-> FALSE]>>,
     byte |-> (65536 :> 79) @@ (65537 :> 4) @@ (65538 :> 79) @@ (65539 :> 255)]

ScanCall ==
    /\ ret = NotCalled
    /\ ret' = Returns(scan(SmallModule, 65536, 65544, call))
    /\ UNCHANGED <<call, catalogVars, poolVars, sessVars, readerVars>>

InitScan ==
    /\ CatalogIdle
    /\ PoolIdle
    /\ SessionIdle
    /\ ReaderIdle
    /\ call \in Signatures
    /\ ret = NotCalled

NextScan == ScanCall

SpecScan == InitScan /\ [][NextScan]_vars

\* a token the claim accepts: two hex digits, or a wildcard
WellFormedToken(token) ==
    \/ token = sWildcard
    \/ token = sWildcard2
    \/ Len(token) = 2 /\ IsHexDigit(token[1]) /\ IsHexDigit(token[2])

WellFormedSignature(signature) ==
    /\ split_whitespace(signature, <<>>) # <<>>
    /\ \A k \in 1..Len(split_whitespace(signature, <<>>)) :
          WellFormedToken(split_whitespace(signature, <<>>)[k])

\* C24: the scanner accepts a signature only when it has at least one token
\* and every token is a 2-hex-digit byte or a wildcard; any other signature
\* is rejected with an error before a region is enumerated or read
C24_MalformedSignatureRejected ==
    (ret # NotCalled /\ ~WellFormedSignature(call))
        => (~ret[1].ok /\ ret[1].queries = 0 /\ ret[1].reads = 0)

(***************************************************************************)
(* BaseAddressDumper::scan_and_resolve over small main modules.  A module  *)
(* is a run of 5-byte instructions, an opcode and a 32-bit displacement,   *)
(* with at most one cut-off instruction at its end.                        *)
(***************************************************************************)
MaxInstructions == 2
MaxCandidates == 2

\* where the main module is loaded, and the two opcodes of its instructions
ModuleFixture == [base |-> 65536, a |-> 170, b |-> 187]
ModuleBase == ModuleFixture.base
OpcodeA == ModuleFixture.a
OpcodeB == ModuleFixture.b

\* displacements that resolve into user space, below it, and past its end
Displacements == {16, -4096, -131072}

\* the four bytes of an i32, lowest first
I32Bytes(d) ==
    LET low == IF d < 0 THEN d + 2147483647 + 1 ELSE d
    IN  <<low % 256, (low \div 256) % 256, (low \div 65536) % 256,
          (low \div 16777216) + (IF d < 0 THEN 128 ELSE 0)>>

Instructions == {<<op>> \o I32Bytes(d) : op \in {OpcodeA, OpcodeB}, d \in Displacements}

RECURSIVE Flatten(_)
Flatten(ss) == IF ss = <<>> THEN <<>> ELSE Head(ss) \o Flatten(Tail(ss))

ModuleImages ==
    {Flatten(is) \o tail :
        is \in UNION {[1..n -> Instructions] : n \in 0..MaxInstructions},
        tail \in {<<>>, <<OpcodeA>>}}

\* the process whose main module holds the bytes
ModuleOf(bytes) ==
    [main_module_base |-> ModuleBase,
     main_module_size |-> Len(bytes),
     regions |-> <<[base |-> 0, size |-> ModuleBase, committed |-> FALSE]>>
                 \o (IF bytes = <<>> THEN <<>>
                     ELSE <<[base |-> ModuleBase, size |-> Len(bytes), committed |-> TRUE]>>),
     byte |-> [a \in ModuleBase..(ModuleBase + Len(bytes) - 1) |-> bytes[a - ModuleBase + 1]]]

\* process.memory.read::<i32>: every byte is read, or the read fails
ReadI32(M, address) ==
    IF \A k \in 0..3 : address + k \in DOMAIN M.byte
    THEN Some(M.byte[address] + 256 * M.byte[address + 1] + 65536 * M.byte[address + 2]
              + 16777216 * (IF M.byte[address + 3] >= 128 THEN M.byte[address + 3] - 256
                            ELSE M.byte[address + 3]))
    ELSE None

\* usize::wrapping_add_signed: a sum below zero wraps to the top of the
\* address space
wrapping_add_signed(a, d) == IF a + d < 0 THEN FarAddress ELSE a + d

\* BaseAddressDumper::resolve_rip
resolve_rip(M, instr_addr, disp_offset, instr_len) ==
    IF ReadI32(M, instr_addr + disp_offset) = None THEN None
    ELSE Some(wrapping_add_signed(instr_addr + instr_len, ReadI32(M, instr_addr + disp_offset)[1]))

\* "Quick heuristic to validate if it's a valid pointer within user space"
InUserSpace(resolved) == resolved > MinPointer /\ resolved < FarAddress

FirstResolved_first_hit_only(M, results, disp_offset, instr_len) ==
    IF results = <<>> THEN None
    ELSE IF resolve_rip(M, Head(results), disp_offset, instr_len) = None THEN None
    ELSE IF InUserSpace(resolve_rip(M, Head(results), disp_offset, instr_len)[1])
         THEN resolve_rip(M, Head(results), disp_offset, instr_len)
    ELSE None

\* "for &addr in &results": the first hit that resolves into user space
RECURSIVE FirstResolved(_, _, _, _)
FirstResolved(M, results, disp_offset, instr_len) ==
    IF results = <<>> THEN None
    ELSE IF resolve_rip(M, Head(results), disp_offset, instr_len) = None
         THEN FirstResolved(M, Tail(results), disp_offset, instr_len)
    ELSE IF InUserSpace(resolve_rip(M, Head(results), disp_offset, instr_len)[1])
         THEN resolve_rip(M, Head(results), disp_offset, instr_len)
    ELSE FirstResolved(M, Tail(results), disp_offset, instr_len)

\* BaseAddressDumper::scan_and_resolve from candidate idx on (counted from
\* 1): Ok(resolved) or Err, with the number of candidates scanned
RECURSIVE scan_and_resolve(_, _, _)
scan_and_resolve(M, aobs, idx) ==
    IF idx > Len(aobs) THEN [ok |-> FALSE, value |-> 0, scanned |-> Len(aobs)]
    ELSE LET found == scan(M, M.main_module_base,
                           M.main_module_base + M.main_module_size, aobs[idx].aob)
             resolved == FirstResolved(M, found.hits, aobs[idx].disp_offset, aobs[idx].instr_len)
         IN  IF found.ok /\ resolved # None
             THEN [ok |-> TRUE, value |-> resolved[1], scanned |-> idx]
             ELSE scan_and_resolve(M, aobs, idx + 1)

\* the candidate signatures: one per opcode, one that occurs nowhere, and
\* one without a token
Candidates ==
    {[aob |-> a, disp_offset |-> 1, instr_len |-> 5] :
        a \in {<<"A","A">>, <<"B","B">>, <<"C","C">>, <<" ">>}}

CandidateLists == UNION {[1..n -> Candidates] : n \in 1..MaxCandidates}

ResolveCall ==
    /\ ret = NotCalled
    /\ ret' = Returns(scan_and_resolve(ModuleOf(call.image), call.aobs, 1))
    /\ UNCHANGED <<call, catalogVars, poolVars, sessVars, readerVars>>

InitResolve ==
    /\ CatalogIdle
    /\ PoolIdle
    /\ SessionIdle
    /\ ReaderIdle
    /\ call \in [image : ModuleImages, aobs : CandidateLists]
    /\ ret = NotCalled

NextResolve == ResolveCall

SpecResolve == InitResolve /\ [][NextResolve]_vars

\* the addresses in the module where a candidate's signature occurs
HitsOf(c) ==
    LET found == scan(ModuleOf(call.image), ModuleBase, ModuleBase + Len(call.image), c.aob)
    IN  IF found.ok THEN {found.hits[k] : k \in 1..Len(found.hits)} ELSE {}

\* the resolutions of a candidate's hits that lie in (0x10000, 0x7FFF_FFFF_FFFF)
GoodResolutions(c) ==
    {t \in {IF ReadI32(ModuleOf(call.image), h + c.disp_offset) = None THEN 0
            ELSE wrapping_add_signed(h + c.instr_len,
                                     ReadI32(ModuleOf(call.image), h + c.disp_offset)[1]) :
            h \in HitsOf(c)} :
        t > 65536 /\ t < FarAddress}

Qualifying == {i \in 1..Len(call.aobs) : GoodResolutions(call.aobs[i]) # {}}

\* C23: the candidates are tried in list order: the address returned is
\* resolved from a hit of the lowest-indexed candidate with a hit that
\* resolves into (0x10000, 0x7FFF_FFFF_FFFF), no later candidate is scanned,
\* and when no candidate qualifies the result is an error
C23_CandidatesInListOrder ==
    ret # NotCalled =>
        IF Qualifying = {}
        THEN ~ret[1].ok /\ ret[1].scanned = Len(call.aobs)
        ELSE /\ ret[1].ok
             /\ ret[1].value \in GoodResolutions(call.aobs[Min(Qualifying)])
             /\ ret[1].scanned = Min(Qualifying)

\* the first candidate's hits all fail and the address comes from the second
\* candidate's hit on the second instruction
C23_Witness ==
    /\ ret # NotCalled
    /\ Len(call.aobs) = 2
    /\ Qualifying = {2}
    /\ HitsOf(call.aobs[1]) # {}
    /\ ret[1].ok
    /\ ret[1].scanned = 2
    /\ ret[1].value = ModuleBase + 5 + 5 + 16

\* no candidate qualifies although signatures hit
C23_WitnessNone ==
    /\ ret # NotCalled
    /\ Qualifying = {}
    /\ \E i \in 1..Len(call.aobs) : HitsOf(call.aobs[i]) # {}
    /\ ~ret[1].ok

(***************************************************************************)
(* thread_search_all_object: one walker batch over a table of entry slots. *)
(* A slot cannot be read, or holds a pointer; what the pointer leads to is *)
(* readable or not, and try_save_object adds `saves` objects to the        *)
(* catalog when it is handed the pointer.                                  *)
(***************************************************************************)
MaxSlots == 4

MAX_OBJECT_QUANTITY == 2000000

\* where the batch's table lies and the stride of its entries
BatchFixture == [level1 |-> 1048576, level2 |-> 2097152, element_size |-> 24]

SlotKinds ==
    {[readable |-> FALSE, pointer |-> 0, object |-> FALSE, saves |-> 0],
     [readable |-> TRUE, pointer |-> 0, object |-> FALSE, saves |-> 0],
     [readable |-> TRUE, pointer |-> 65535, object |-> TRUE, saves |-> 0],
     [readable |-> TRUE, pointer |-> 196608, object |-> FALSE, saves |-> 0],
     [readable |-> TRUE, pointer |-> 65536, object |-> TRUE, saves |-> 0],
     [readable |-> TRUE, pointer |-> 131072, object |-> TRUE, saves |-> 1]}

BatchInputs ==
    [slots : UNION {[1..n -> SlotKinds] : n \in 0..MaxSlots},
     level2 : BOOLEAN,
     count : {0, MAX_OBJECT_QUANTITY}]

\* the slot a read address falls on, counted from 1; 0 outside the table
SlotIndex(B, read_addr) ==
    IF /\ read_addr >= BatchFixture.level2
       /\ (read_addr - BatchFixture.level2) % BatchFixture.element_size = 0
       /\ (read_addr - BatchFixture.level2) \div BatchFixture.element_size < Len(B.slots)
    THEN (read_addr - BatchFixture.level2) \div BatchFixture.element_size + 1
    ELSE 0

\* process.memory.try_read_pointer on the batch's memory
BatchReadPointer(B, address) ==
    IF address = BatchFixture.level1
    THEN (IF B.level2 THEN Some(BatchFixture.level2) ELSE None)
    ELSE IF SlotIndex(B, address) # 0
    THEN (IF B.slots[SlotIndex(B, address)].readable
          THEN Some(B.slots[SlotIndex(B, address)].pointer) ELSE None)
    ELSE IF \E k \in 1..Len(B.slots) :
               B.slots[k].readable /\ B.slots[k].pointer = address /\ B.slots[k].object
    THEN Some(0)
    ELSE None

\* what try_save_object adds to total_object_count for an address
SavesAt(B, address) ==
    IF \E k \in 1..Len(B.slots) : B.slots[k].pointer = address /\ B.slots[k].saves > 0
    THEN 1 ELSE 0

RECURSIVE BatchLoop_break_on_failed_slot(_, _, _, _, _)
BatchLoop_break_on_failed_slot(B, addr_level_2, i, end, total) ==
    IF i > end THEN <<>>
    ELSE LET read_addr == addr_level_2 + i * BatchFixture.element_size
             addr_level_3 == BatchReadPointer(B, read_addr)
         IN  IF addr_level_3 = None THEN <<>>
             ELSE IF addr_level_3[1] < MinPointer \/ BatchReadPointer(B, addr_level_3[1]) = None
                  THEN <<>>
             ELSE <<[index |-> i, address |-> addr_level_3[1]]>>
                  \o (IF total + SavesAt(B, addr_level_3[1]) > MAX_OBJECT_QUANTITY THEN <<>>
                      ELSE BatchLoop_break_on_failed_slot(B, addr_level_2, i + 1, end,
                                                          total + SavesAt(B, addr_level_3[1])))

\* "for i in start..=end": the try_save_object calls made from index i on
RECURSIVE BatchLoop(_, _, _, _, _)
BatchLoop(B, addr_level_2, i, end, total) ==
    IF i > end THEN <<>>
    ELSE LET read_addr == addr_level_2 + i * BatchFixture.element_size
             addr_level_3 == BatchReadPointer(B, read_addr)
         IN  IF addr_level_3 = None THEN BatchLoop(B, addr_level_2, i + 1, end, total)
             ELSE IF addr_level_3[1] < MinPointer \/ BatchReadPointer(B, addr_level_3[1]) = None
                  THEN <<>>
             ELSE <<[index |-> i, address |-> addr_level_3[1]]>>
                  \o (IF total + SavesAt(B, addr_level_3[1]) > MAX_OBJECT_QUANTITY THEN <<>>
                      ELSE BatchLoop(B, addr_level_2, i + 1, end,
                                     total + SavesAt(B, addr_level_3[1])))

\* ObjectArray::thread_search_all_object: the try_save_object calls it makes
thread_search_all_object(B, address, start, end) ==
    IF BatchReadPointer(B, address) = None THEN <<>>
    ELSE BatchLoop(B, BatchReadPointer(B, address)[1], start, end, B.count)

BatchCall ==
    /\ ret = NotCalled
    /\ ret' = Returns(thread_search_all_object(call, BatchFixture.level1, 0, Len(call.slots)))
    /\ UNCHANGED <<call, catalogVars, poolVars, sessVars, readerVars>>

InitBatch ==
    /\ CatalogIdle
    /\ PoolIdle
    /\ SessionIdle
    /\ ReaderIdle
    /\ call \in BatchInputs
    /\ ret = NotCalled

NextBatch == BatchCall

SpecBatch == InitBatch /\ [][NextBatch]_vars

\* the indexes, from 0, of the slots whose read fails
FailedSlots == {k - 1 : k \in {j \in 1..Len(call.slots) : ~call.slots[j].readable}}

\* the indexes of the entries that lead below 0x10000 or to an unreadable object
BadEntries ==
    {k - 1 : k \in {j \in 1..Len(call.slots) :
                        /\ call.slots[j].readable
                        /\ (call.slots[j].pointer < 65536 \/ ~call.slots[j].object)}}

Visited == {ret[1][k].index : k \in 1..Len(ret[1])}

\* the batch was not cut short by the object limit
UnderLimit == call.count + Len(call.slots) <= MAX_OBJECT_QUANTITY

\* C30: within a batch a failed read of an entry slot skips that index only,
\* the entries after it are still visited, whereas an entry that leads below
\* 0x10000 or to an unreadable object ends the batch
C30_SkipOnFailedSlotBreakOnBadEntry ==
    (ret # NotCalled /\ call.level2) =>
        /\ \A b \in BadEntries : \A v \in Visited : v < b
        /\ Visited \cap FailedSlots = {}
        /\ UnderLimit =>
              \A i \in 0..(Len(call.slots) - 1) :
                  (i \notin FailedSlots /\ \A b \in BadEntries : i < b) => i \in Visited

\* a slot that cannot be read lies before a visited entry, and a bad entry
\* lies before an object that is not visited
C30_Witness ==
    /\ ret # NotCalled
    /\ call.level2
    /\ call.count = 0
    /\ Len(call.slots) = 4
    /\ FailedSlots = {0}
    /\ BadEntries = {2}
    /\ call.slots[4].saves = 1
    /\ Visited = {1}

(***************************************************************************)
(* search_object_instances: the scan of the target for a class address and *)
(* a try_save_object call for each hit.  The target's memory is TargetMem  *)
(* seen byte by byte; every run of cells is a committed region.            *)
(***************************************************************************)
MaxSearches == 2

\* the byte at an address of a cell
TargetByteAt(a) == I32Bytes(TargetMem[a - (a % 4)])[(a % 4) + 1]

TargetByteAddresses == {c + k : c \in DOMAIN TargetMem, k \in 0..3}

\* the first cell of every run of cells, and the end of the run
RunStarts == {a \in DOMAIN TargetMem : (a - 4) \notin DOMAIN TargetMem}
RunEnd(base) ==
    Min({x + 4 : x \in {y \in DOMAIN TargetMem : y >= base /\ (y + 4) \notin DOMAIN TargetMem}})

\* the regions VirtualQueryEx reports: the free space before every run,
\* then the run
TargetRegions ==
    [k \in 1..(2 * Cardinality(RunStarts)) |->
        LET base == InOrder(RunStarts)[(k + 1) \div 2]
            before == IF k <= 2 THEN 0 ELSE RunEnd(InOrder(RunStarts)[(k - 1) \div 2])
        IN  IF k % 2 = 1
            THEN [base |-> before, size |-> base - before, committed |-> FALSE]
            ELSE [base |-> base, size |-> RunEnd(base) - base, committed |-> TRUE]]

TargetImage ==
    [regions |-> TargetRegions,
     byte |-> [a \in TargetByteAddresses |-> TargetByteAt(a)]]

\* format!("{:02X}", b)
HexByte(b) == <<HexDigits[(b \div 16) + 1], HexDigits[(b % 16) + 1]>>

\* u64::to_le_bytes of an address below 2^31
to_le_bytes(addr) == I32Bytes(addr) \o <<0, 0, 0, 0>>

\* .collect::<Vec<_>>().join(" ")
RECURSIVE JoinSpace(_)
JoinSpace(tokens) ==
    IF tokens = <<>> THEN <<>>
    ELSE IF Len(tokens) = 1 THEN Head(tokens)
    ELSE Head(tokens) \o <<" ">> \o JoinSpace(Tail(tokens))

\* the signature search_object_instances builds from the address
InstanceSignature(addr) ==
    JoinSpace([k \in 1..8 |-> HexByte(to_le_bytes(addr)[k])])

InstanceOffset_class_field(hit) == IF hit < 8 THEN 0 ELSE hit - 8

\* hit.saturating_sub(0x10)
InstanceOffset(hit) == IF hit < 16 THEN 0 ELSE hit - 16

\* a search that has not started
Search0 ==
    [stage |-> "idle", object_address |-> 0, hits |-> <<>>, base |-> 0,
     visited |-> <<>>, outcomes |-> <<>>, results |-> <<>>, n |-> 0]

\* the addresses a search is given: classes, a field class, objects and an
\* address nothing refers to
SearchAddresses ==
    {ClsClass, ClsPackage, ClsFunction, ClsLong, ClsEdge, ClsNoName,
     FcObjectProperty, ObjP, ObjA, ObjZ}

sNoNamePool == "Name pool not valid"

\* search_object_instances up to its loop: the scan and the name pool check
InstancesBegin(addr) ==
    /\ call.stage \in {"idle", "done"}
    /\ call.n < MaxSearches
    /\ \E found \in {scan(TargetImage, 0, FarAddress, InstanceSignature(addr))} :
          IF ~found.ok \/ ~name_pool
          THEN /\ call' = [Search0 EXCEPT !.stage = "done", !.object_address = addr,
                                          !.n = call.n + 1]
               /\ ret' = Returns([ok |-> FALSE, results |-> <<>>])
          ELSE /\ call' = [Search0 EXCEPT !.stage = "hits", !.object_address = addr,
                                          !.hits = found.hits, !.base = ncalls,
                                          !.n = call.n + 1]
               /\ ret' = NotCalled
    /\ UNCHANGED <<catalogVars, poolVars, sessVars, readerVars>>

\* "for hit in hits": the try_save_object call for the next hit
InstancesVisit ==
    /\ call.stage = "hits"
    /\ Len(call.visited) < Len(call.hits)
    /\ ncalls - call.base = Len(call.visited)
    /\ try_save_object("q", InstanceOffset(call.hits[Len(call.visited) + 1]))

\* the call has returned: the result is pushed when the record has a name
InstancesCollect ==
    /\ call.stage = "hits"
    /\ th["q"].pc = "idle"
    /\ ncalls - call.base = Len(call.visited) + 1
    /\ call' = [call EXCEPT
                  !.visited = Append(@, last.address),
                  !.outcomes = Append(@, last.ret),
                  !.results =
                      IF last.ret # None /\ last.ret[1].name # sInvalidName
                                         /\ last.ret[1].name # sNone
                      THEN Append(@, [instance_address |-> last.address,
                                      object_name |-> last.ret[1].name])
                      ELSE @]
    /\ UNCHANGED <<ret, catalogVars, poolVars, sessVars, readerVars>>

\* Ok(results)
InstancesEnd ==
    /\ call.stage = "hits"
    /\ Len(call.visited) = Len(call.hits)
    /\ call' = [call EXCEPT !.stage = "done"]
    /\ ret' = Returns([ok |-> TRUE, results |-> call.results])
    /\ UNCHANGED <<catalogVars, poolVars, sessVars, readerVars>>

\* a session whose catalog is empty, with the name pool parsed or not
InitInstances ==
    /\ byAddress = EmptyMap
    /\ byId = EmptyMap
    /\ count = 0
    /\ name_pool \in BOOLEAN
    /\ pcmd = "idle"
    /\ running = 0
    /\ th = [t \in Threads |-> Locals0]
    /\ last = NoCall
    /\ roots = {}
    /\ pool = Queries
    /\ ncalls = 0
    /\ nparses = 0
    /\ enrich = EmptyMap
    /\ qres = <<>>
    /\ nqueries = 0
    /\ overlap = FALSE
    /\ PoolIdle
    /\ SessionIdle
    /\ ReaderIdle
    /\ call = Search0
    /\ ret = NotCalled

NextInstances ==
    \/ \E addr \in SearchAddresses : InstancesBegin(addr)
    \/ InstancesVisit
    \/ Tier1Insert("q")
    \/ ByIdInsert("q")
    \/ WalkStep("q")
    \/ ShallowInsert("q")
    \/ Tier2Insert("q")
    \/ CountIncrement("q")
    \/ InstancesCollect
    \/ InstancesEnd

SpecInstances == InitInstances /\ [][NextInstances]_vars

\* the addresses where the 8 little-endian bytes of an address lie in the target
PatternOccurrences(addr) ==
    {x \in TargetByteAddresses :
        \A k \in 0..7 :
            /\ (x + k) \in TargetByteAddresses
            /\ TargetByteAt(x + k) = (IF k < 4 THEN (addr \div (256 ^ k)) % 256 ELSE 0)}

\* the target holds an object with a type and a name at the address
ValidObject(a) ==
    /\ a >= 65536
    /\ try_read_pointer(a) # None
    /\ GetBasicInfo(a).ok
    /\ GetBasicInfo(a).obj.type_name # <<>>
    /\ Len(GetBasicInfo(a).obj.type_name) <= 100
    /\ GetBasicInfo(a).obj.name \notin {<<>>, sNone, sInvalidName}

SearchReturned == ret # NotCalled /\ call.stage = "done" /\ ret[1].ok

\* C28: findInstances takes hit - 0x10 for every place where the 8
\* little-endian bytes of the class address lie, and returns exactly the
\* candidates for which try_save_object yields a record named neither
\* "InvalidName" nor "None"; a single occurrence at X with a valid object at
\* X - 0x10 gives exactly one entry
C28_InstancesAreNamedCandidates ==
    SearchReturned =>
        /\ call.visited =
              [k \in 1..Cardinality(PatternOccurrences(call.object_address)) |->
                  InOrder(PatternOccurrences(call.object_address))[k] - 16]
        /\ LET named == {k \in 1..Len(call.outcomes) :
                            /\ call.outcomes[k] # None
                            /\ call.outcomes[k][1].name \notin {sInvalidName, sNone}}
           IN  /\ Len(ret[1].results) = Cardinality(named)
               /\ \A j \in 1..Len(ret[1].results) :
                     /\ \E k \in named :
                           /\ ret[1].results[j].instance_address = call.visited[k]
                           /\ ret[1].results[j].object_name = call.outcomes[k][1].name
                           /\ Cardinality({m \in named : m <= k}) = j
        /\ \A x \in PatternOccurrences(call.object_address) :
              (PatternOccurrences(call.object_address) = {x} /\ ValidObject(x - 16))
                  => /\ Len(ret[1].results) = 1
                     /\ ret[1].results[1].instance_address = x - 16

\* the class address of a function lies once in the target, 0x10 into the
\* function object, and the search returns that object
C28_Witness ==
    /\ SearchReturned
    /\ call.object_address = ClsFunction
    /\ PatternOccurrences(ClsFunction) = {ObjF + 16}
    /\ ValidObject(ObjF)
    /\ Len(ret[1].results) = 1
    /\ ret[1].results[1].instance_address = ObjF

(***************************************************************************)
(* global_search.  The catalog is given in the order the iteration over    *)
(* cache_by_address takes; an entry with `copies` stands for so many       *)
(* consecutive objects that differ in their address only.  A result run    *)
(* with `count` stands for so many consecutive results of one object       *)
(* record and member name.  The member chain of an object is the names of  *)
(* its members, and a cyclic chain leads from its last member back to it.  *)
(***************************************************************************)
MaxEntries == 2

limit == 500
safety_limit == 2000

\* char::to_lowercase on the characters of the modelled names
LowerChar(c) == IF Byte(c) >= Byte("A") /\ Byte(c) <= Byte("Z") THEN Alphabet[Byte(c) + 27] ELSE c

\* str::to_lowercase
to_lowercase(str) == [k \in 1..Len(str) |-> LowerChar(str[k])]

sUserEnum == <<"u","s","e","r","e","n","u","m">>
sLowerClass == <<"c","l","a","s","s">>
sLowerStruct == <<"s","t","r","u","c","t">>
sLowerEnum == <<"e","n","u","m">>
sLowerFunction == <<"f","u","n","c","t","i","o","n">>

\* the objects a catalog is made of; the ones with copies have at most one member
SearchObjects ==
    {[name |-> <<"A","c","t","o","r">>, type_name |-> <<"C","l","a","s","s">>,
      full_name |-> <<"/","S","c","r","i","p","t","/","E","n","g","i","n","e",".","A","c","t","o","r">>,
      copies |-> 1, members |-> <<<<"O","w","n","e","r">>, <<"T","i","c","k">>>>, cyclic |-> FALSE],
     [name |-> <<"A","c","t","o","r","C","o","m","p","o","n","e","n","t">>, type_name |-> <<"C","l","a","s","s">>,
      full_name |-> <<"/","S","c","r","i","p","t","/","E","n","g","i","n","e",".","A","c","t","o","r","C","o","m","p","o","n","e","n","t">>,
      copies |-> 1, members |-> <<<<"O","w","n","e","r">>>>, cyclic |-> TRUE],
     [name |-> <<"P","a","w","n">>, type_name |-> <<"C","l","a","s","s">>,
      full_name |-> <<"/","S","c","r","i","p","t","/","E","n","g","i","n","e",".","P","a","w","n">>,
      copies |-> 1, members |-> <<>>, cyclic |-> FALSE],
     [name |-> <<"A","c","t","o","r">>, type_name |-> <<"C","l","a","s","s">>,
      full_name |-> <<"/","G","a","m","e","/","B",".","A","c","t","o","r">>,
      copies |-> 1, members |-> <<>>, cyclic |-> FALSE],
     [name |-> <<"a","c","t","o","r">>, type_name |-> <<"C","l","a","s","s">>,
      full_name |-> <<"/","G","a","m","e","/","a",".","a","c","t","o","r">>,
      copies |-> 1, members |-> <<>>, cyclic |-> FALSE],
     [name |-> <<"A","c","t","o","r","K","e","y">>, type_name |-> <<"S","c","r","i","p","t","S","t","r","u","c","t">>,
      full_name |-> <<"/","S","c","r","i","p","t","/","E","n","g","i","n","e",".","A","c","t","o","r","K","e","y">>,
      copies |-> 300, members |-> <<<<"O","w","n","e","r">>>>, cyclic |-> FALSE],
     [name |-> <<"A","c","t","o","r","T","i","c","k">>, type_name |-> <<"F","u","n","c","t","i","o","n">>,
      full_name |-> <<"/","S","c","r","i","p","t","/","E","n","g","i","n","e",".","A","c","t","o","r",":","A","c","t","o","r","T","i","c","k">>,
      copies |-> 300, members |-> <<>>, cyclic |-> FALSE],
     [name |-> <<"E","A","c","t","o","r">>, type_name |-> <<"E","n","u","m">>,
      full_name |-> <<"/","S","c","r","i","p","t","/","E","n","g","i","n","e",".","E","A","c","t","o","r">>,
      copies |-> 1, members |-> <<>>, cyclic |-> FALSE],
     [name |-> <<"A","c","t","o","r","P","k","g">>, type_name |-> <<"P","a","c","k","a","g","e">>,
      full_name |-> <<"/","S","c","r","i","p","t","/","A","c","t","o","r","P","k","g">>,
      copies |-> 1, members |-> <<>>, cyclic |-> FALSE]}

SearchCatalogs == UNION {[1..n -> SearchObjects] : n \in 0..MaxEntries}

SearchQueries == {<<"a","c","t","o","r">>, <<"O","w","n">>}

SearchInputs ==
    [catalog : SearchCatalogs, query : SearchQueries, search_mode : {"Object", "Member"},
     attached : BOOLEAN]

\* the address of the first object of the k-th entry
EntryAddress(k) == ObjP + 4096 * k

\* "is_valid_type" of Object mode
is_valid_type(type_name) ==
    \/ Contains(to_lowercase(type_name), sLowerClass)
    \/ Contains(to_lowercase(type_name), sLowerStruct)
    \/ Contains(to_lowercase(type_name), sLowerEnum)
    \/ to_lowercase(type_name) = sUserEnum
    \/ Contains(to_lowercase(type_name), sLowerFunction)

\* the types whose members Member mode walks
HasMembers(type_name) ==
    \/ Contains(to_lowercase(type_name), sLowerClass)
    \/ Contains(to_lowercase(type_name), sLowerStruct)

Run(k, obj, member_name, n) ==
    [package_name |-> extract_package_name(obj.full_name), object_name |-> obj.name,
     type_name |-> obj.type_name, address |-> EntryAddress(k), member_name |-> member_name,
     count |-> n]

\* the members the walk of one object reaches: "while child_addr > 0x10000
\* && safety < 2000"
Walked(obj) ==
    IF obj.members = <<>> THEN 0
    ELSE IF obj.cyclic THEN safety_limit
    ELSE Min({Len(obj.members), safety_limit})

\* the name of the j-th member the walk reaches
WalkedName(obj, j) == obj.members[((j - 1) % Len(obj.members)) + 1]

MemberRuns_no_break(k, obj, query_lower, room) ==
    LET hits == {j \in 1..Min({Walked(obj), 2 * Len(obj.members)}) :
                    Contains(to_lowercase(WalkedName(obj, j)), query_lower)}
        names == {WalkedName(obj, j) : j \in hits}
        total == IF obj.cyclic
                 THEN Cardinality({j \in 1..Len(obj.members) :
                          Contains(to_lowercase(obj.members[j]), query_lower)})
                      * (safety_limit \div Len(obj.members))
                 ELSE Cardinality(hits)
    IN  IF hits = {} THEN <<>>
        ELSE IF Cardinality(names) = 1
        THEN <<Run(k, obj, Some(CHOOSE m \in names : TRUE), total * obj.copies)>>
        ELSE [j \in 1..total |-> Run(k, obj, Some(WalkedName(obj, InOrder(hits)[j])), 1)]

\* the results the member walks of an entry push when `room` more results
\* fit under the limit: a push, then "if results.len() >= limit break"
MemberRuns(k, obj, query_lower, room) ==
    LET hits == {j \in 1..Min({Walked(obj), 2 * Len(obj.members)}) :
                    Contains(to_lowercase(WalkedName(obj, j)), query_lower)}
        names == {WalkedName(obj, j) : j \in hits}
        total == IF obj.cyclic
                 THEN Cardinality({j \in 1..Len(obj.members) :
                          Contains(to_lowercase(obj.members[j]), query_lower)})
                      * (safety_limit \div Len(obj.members))
                 ELSE Cardinality(hits)
    IN  IF hits = {} THEN <<>>
        ELSE IF Cardinality(names) = 1
        THEN <<Run(k, obj, Some(CHOOSE m \in names : TRUE), Min({total * obj.copies, room}))>>
        ELSE [j \in 1..Min({total, room}) |->
                 Run(k, obj, Some(WalkedName(obj, InOrder(hits)[j])), 1)]

RECURSIVE TotalCount(_)
TotalCount(runs) == IF runs = <<>> THEN 0 ELSE Head(runs).count + TotalCount(Tail(runs))

\* "for entry in obj_mgr.cache_by_address.iter()" from the k-th entry on
RECURSIVE CatalogLoop(_, _, _)
CatalogLoop(input, k, results) ==
    IF k > Len(input.catalog) THEN results
    ELSE IF TotalCount(results) >= limit THEN results
    ELSE LET obj == input.catalog[k]
             query_lower == to_lowercase(input.query)
             room == limit - TotalCount(results)
         IN  IF input.search_mode = "Object"
             THEN CatalogLoop(input, k + 1,
                     IF is_valid_type(obj.type_name)
                        /\ Contains(to_lowercase(obj.name), query_lower)
                     THEN Append(results, Run(k, obj, None, Min({obj.copies, room})))
                     ELSE results)
             ELSE CatalogLoop(input, k + 1,
                     IF HasMembers(obj.type_name) /\ input.attached
                     THEN results \o MemberRuns(k, obj, query_lower, room)
                     ELSE results)

\* the closure `order` of the sort
order(type_name) ==
    IF Contains(to_lowercase(type_name), sLowerClass) THEN 0
    ELSE IF Contains(to_lowercase(type_name), sLowerStruct) THEN 1
    ELSE IF Contains(to_lowercase(type_name), sLowerEnum) \/ to_lowercase(type_name) = sUserEnum
         THEN 2
    ELSE IF Contains(to_lowercase(type_name), sLowerFunction) THEN 3
    ELSE 4

\* the comparison of results.sort_by says Less
SortLess(a, b) ==
    \/ order(a.type_name) < order(b.type_name)
    \/ /\ order(a.type_name) = order(b.type_name)
       /\ \/ StrLess(to_lowercase(a.object_name), to_lowercase(b.object_name))
          \/ /\ to_lowercase(a.object_name) = to_lowercase(b.object_name)
             /\ StrLess(a.package_name, b.package_name)

\* slice::sort_by: a stable sort
sort_by(runs) ==
    LET before(i) ==
            {j \in 1..Len(runs) :
                \/ SortLess(runs[j], runs[i])
                \/ ~SortLess(runs[i], runs[j]) /\ j < i}
    IN  [p \in 1..Len(runs) |->
            runs[CHOOSE i \in 1..Len(runs) : Cardinality(before(i)) = p - 1]]

\* global_search
global_search(input) == sort_by(CatalogLoop(input, 1, <<>>))

SearchCall ==
    /\ ret = NotCalled
    /\ ret' = Returns(global_search(call))
    /\ UNCHANGED <<call, catalogVars, poolVars, sessVars, readerVars>>

InitSearch ==
    /\ CatalogIdle
    /\ PoolIdle
    /\ SessionIdle
    /\ ReaderIdle
    /\ call \in SearchInputs
    /\ ret = NotCalled

NextSearch == SearchCall

SpecSearch == InitSearch /\ [][NextSearch]_vars

\* C26: globalSearch never returns more than 500 results, in Object mode and
\* in Member mode, whatever the catalog and the member chains hold
C26_AtMost500Results ==
    ret # NotCalled => TotalCount(ret[1]) <= 500

\* a Member-mode search over a cyclic member chain, cut at 500 results
C26_Witness ==
    /\ ret # NotCalled
    /\ call.search_mode = "Member"
    /\ \E k \in 1..Len(call.catalog) : call.catalog[k].cyclic
    /\ TotalCount(ret[1]) = 500

\* an Object-mode search over more than 500 matching objects
C26_WitnessObject ==
    /\ ret # NotCalled
    /\ call.search_mode = "Object"
    /\ TotalCount(ret[1]) = 500
    /\ Len(ret[1]) > 1

\* the kind of a cached object: 0 class, 1 struct, 2 enum, 3 function
KindOf(run) == order(run.type_name)

\* a sorts before b by kind, then name, then package, without regard to case
CaseInsensitiveLess(a, b) ==
    \/ KindOf(a) < KindOf(b)
    \/ /\ KindOf(a) = KindOf(b)
       /\ \/ StrLess(to_lowercase(a.object_name), to_lowercase(b.object_name))
          \/ /\ to_lowercase(a.object_name) = to_lowercase(b.object_name)
             /\ StrLess(to_lowercase(a.package_name), to_lowercase(b.package_name))

\* the entries an Object-mode search is to return
ObjectMatches ==
    {k \in 1..Len(call.catalog) :
        /\ KindOf(call.catalog[k]) <= 3
        /\ Contains(to_lowercase(call.catalog[k].name), to_lowercase(call.query))}

RECURSIVE CopiesOf(_)
CopiesOf(K) ==
    IF K = {} THEN 0
    ELSE call.catalog[Min(K)].copies + CopiesOf(K \ {Min(K)})

\* C27: in Object mode globalSearch returns the cached class, struct, enum
\* and function objects whose name contains the query without regard to
\* case, all of them when they are at most 500, ordered by kind, then name,
\* then package, each compared without regard to case
C27_ObjectModeOrdered ==
    (ret # NotCalled /\ call.search_mode = "Object") =>
        /\ CopiesOf(ObjectMatches) <= 500 =>
              /\ {ret[1][j].address : j \in 1..Len(ret[1])}
                    = {EntryAddress(k) : k \in ObjectMatches}
              /\ TotalCount(ret[1]) = CopiesOf(ObjectMatches)
        /\ \A j \in 1..(Len(ret[1]) - 1) : ~CaseInsensitiveLess(ret[1][j + 1], ret[1][j])

(***************************************************************************)
(* The progress events of parse_pool and parse_array.  The batches of a    *)
(* parallel loop are taken by two rayon workers; every access to a shared  *)
(* atomic is a step, with the thread's own work that follows it.  The      *)
(* first `full` batches of a parse find an entry for every index, the      *)
(* others find none.  Of the events only the last one is kept, with their  *)
(* number and whether an earlier one looked complete.                      *)
(***************************************************************************)
\* names per batch of parse_pool, and batches per block (1 << 16 names)
batch_size == 512
BatchesPerBlock == 128
\* entries per batch of parse_array: "for i in start..=end" over
\* element_size * 0x20 indexes, with element_size 0x18
EntriesPerBatch == 769
\* AtomicUsize::new(10_000)
InitialTarget == 10000
\* "current % 10 == 0" and "bp % 5 == 0"
NamesEvery == 10
ObjectsEvery == 5

ParseWorkers == {"w1", "w2"}

WorkerIdle == [pc |-> "idle", batch |-> 0, n |-> 0, target |-> 0, ticket |-> 0]

NoEvent == [current_chunk |-> -1, total_chunks |-> 0, count |-> 0, total |-> 0, per_batch |-> FALSE]

\* the parse before its loop: parse_pool with its num_batches, parse_array
\* with the split sizes of the regions it is going to find
ParseStart(kind, regions, num_batches, full) ==
    [kind |-> kind, stage |-> "run", regions |-> regions, batches |-> num_batches,
     full |-> full, taken |-> 0, next |-> 0, valid |-> 0, dynamic_total |-> InitialTarget,
     progress |-> 0, w |-> [x \in ParseWorkers |-> WorkerIdle],
     events |-> 0, last_event |-> NoEvent, early |-> FALSE]

ParseStarts ==
    {ParseStart("names", <<>>, valid_blocks * BatchesPerBlock, full) :
        valid_blocks \in {0, 1}, full \in {0, 20}}
    \cup {ParseStart("objects", regions, 0, full) :
            regions \in {<<>>, <<16>>, <<16, 5>>}, full \in {0, 14}}

\* what the consumers take for "completed"
Completed(e) == e.total_chunks = e.current_chunk /\ e.total = e.count

\* app_handle.emit
Emitted(e) ==
    [call EXCEPT !.events = @ + 1,
                 !.early = @ \/ (call.events > 0 /\ Completed(call.last_event)),
                 !.last_event = e]

\* the entries a batch finds
Found(taken) ==
    IF taken < call.full
    THEN (IF call.kind = "names" THEN batch_size ELSE EntriesPerBatch)
    ELSE 0

AllIdle == \A x \in ParseWorkers : call.w[x].pc = "idle"

ParseStep(next_call) ==
    /\ call' = next_call
    /\ UNCHANGED <<ret, catalogVars, poolVars, sessVars, readerVars>>

\* a names batch, taken by a worker: the get_name calls of the batch and
\* valid_names_count.fetch_add
NamesBatch(x) ==
    /\ call.stage = "run"
    /\ call.kind = "names"
    /\ call.w[x].pc = "idle"
    /\ call.next < call.batches
    /\ ParseStep(
          [call EXCEPT !.next = @ + 1, !.taken = @ + 1,
                       !.valid = @ + Found(call.taken),
                       !.w[x] = [WorkerIdle EXCEPT !.pc = "load",
                                                   !.n = call.valid + Found(call.taken)]])

\* an objects batch, taken by a worker: given up when the catalog is over
\* its limit, else thread_search_all_object with its try_save_object calls
ObjectsBatch(x) ==
    /\ call.stage = "run"
    /\ call.kind = "objects"
    /\ call.w[x].pc = "idle"
    /\ call.next < call.batches
    /\ ParseStep(
          IF call.valid > MAX_OBJECT_QUANTITY
          THEN [call EXCEPT !.next = @ + 1]
          ELSE [call EXCEPT !.next = @ + 1, !.taken = @ + 1,
                            !.valid = @ + Found(call.taken),
                            !.w[x] = [WorkerIdle EXCEPT !.pc = "tick"]])

\* the event is due for every tenth or fifth ticket and for the last
EventDue(ticket) ==
    \/ ticket % (IF call.kind = "names" THEN NamesEvery ELSE ObjectsEvery) = 0
    \/ ticket = call.batches

\* progress.fetch_add(1) + 1, batch_progress.fetch_add(1) + 1
Tick(x) ==
    /\ call.w[x].pc = "tick"
    /\ ParseStep(
          [call EXCEPT !.progress = @ + 1,
                       !.w[x] = IF call.kind = "objects"
                                THEN [@ EXCEPT !.ticket = call.progress + 1, !.pc = "count"]
                                ELSE IF EventDue(call.progress + 1)
                                THEN [@ EXCEPT !.ticket = call.progress + 1, !.pc = "emit"]
                                ELSE WorkerIdle])

\* obj_mgr.total_object_count.load
LoadCount(x) ==
    /\ call.w[x].pc = "count"
    /\ ParseStep([call EXCEPT !.w[x].n = call.valid, !.w[x].pc = "load"])

NeedsGrowth_never(n, target) == FALSE

\* "while current_total_names >= current_target"
NeedsGrowth(n, target) == n >= target

\* dynamic_total.load, then the test of the while loop
LoadTarget(x) ==
    /\ call.w[x].pc = "load"
    /\ ParseStep(
          [call EXCEPT !.w[x] =
              IF NeedsGrowth(call.w[x].n, call.dynamic_total)
              THEN [@ EXCEPT !.target = call.dynamic_total, !.pc = "grow"]
              ELSE IF call.kind = "names"
              THEN [@ EXCEPT !.target = call.dynamic_total, !.pc = "tick"]
              ELSE IF EventDue(call.w[x].ticket)
              THEN [@ EXCEPT !.target = call.dynamic_total, !.pc = "emit"]
              ELSE WorkerIdle])

\* dynamic_total.compare_exchange(current_target, next_target)
Grow(x) ==
    /\ call.w[x].pc = "grow"
    /\ ParseStep(
          [call EXCEPT
              !.dynamic_total = compare_exchange(@, call.w[x].target, call.w[x].target * 2),
              !.w[x].target = 0,
              !.w[x].pc = "load"])

\* the per-batch event
Emit(x) ==
    /\ call.w[x].pc = "emit"
    /\ ParseStep(
          [Emitted([current_chunk |-> call.w[x].ticket, total_chunks |-> call.batches,
                    count |-> call.w[x].n, total |-> call.w[x].target,
                    per_batch |-> TRUE])
              EXCEPT !.w[x] = WorkerIdle])

\* parse_array finds the next region: its event, then its parallel loop
RegionStart ==
    /\ call.stage = "run"
    /\ call.kind = "objects"
    /\ AllIdle
    /\ call.next = call.batches
    /\ call.regions # <<>>
    /\ ~(call.valid > MAX_OBJECT_QUANTITY)
    /\ ParseStep(
          [Emitted([current_chunk |-> 0, total_chunks |-> Head(call.regions),
                    count |-> call.valid, total |-> call.dynamic_total,
                    per_batch |-> FALSE])
              EXCEPT !.regions = Tail(call.regions), !.batches = Head(call.regions),
                     !.next = 0, !.progress = 0])

\* the loops have joined their workers: the final event and the return
ParseReturn ==
    /\ call.stage = "run"
    /\ AllIdle
    /\ call.next = call.batches
    /\ call.regions = <<>>
    /\ \E done \in {IF call.kind = "names" THEN call.batches ELSE 1} :
          call' = [Emitted([current_chunk |-> done, total_chunks |-> done,
                            count |-> call.valid, total |-> call.valid,
                            per_batch |-> FALSE])
                      EXCEPT !.stage = "done"]
    /\ ret' = Returns(call.valid)
    /\ UNCHANGED <<catalogVars, poolVars, sessVars, readerVars>>

InitProgress ==
    /\ CatalogIdle
    /\ PoolIdle
    /\ SessionIdle
    /\ ReaderIdle
    /\ call \in ParseStarts
    /\ ret = NotCalled

NextProgress ==
    \/ \E x \in ParseWorkers : NamesBatch(x)
    \/ \E x \in ParseWorkers : ObjectsBatch(x)
    \/ \E x \in ParseWorkers : Tick(x)
    \/ \E x \in ParseWorkers : LoadCount(x)
    \/ \E x \in ParseWorkers : LoadTarget(x)
    \/ \E x \in ParseWorkers : Grow(x)
    \/ \E x \in ParseWorkers : Emit(x)
    \/ RegionStart
    \/ ParseReturn

SpecProgress == InitProgress /\ [][NextProgress]_vars

\* C29: for parseNames and parseObjects the last progress event has
\* total == done and dynamicTotal == count, no per-batch event is emitted
\* after it, no earlier event has both equalities, and every per-batch
\* event carries a dynamicTotal strictly greater than its count
C29_OnlyFinalEventCompletes ==
    /\ call.last_event.per_batch => call.last_event.total > call.last_event.count
    /\ ret # NotCalled =>
          /\ call.last_event.total_chunks = call.last_event.current_chunk
          /\ call.last_event.total = call.last_event.count
          /\ ~call.last_event.per_batch
          /\ ~call.early
          /\ \A x \in ParseWorkers : call.w[x].pc = "idle"
          /\ call.next = call.batches /\ call.regions = <<>>

\* a parse has returned after per-batch events whose target had been doubled
C29_Witness ==
    /\ ret # NotCalled
    /\ call.events > 3
    /\ call.dynamic_total > 10000
    /\ call.last_event.count > 10000

\* the same for parse_array, over two regions
C29_WitnessObjects ==
    /\ ret # NotCalled
    /\ call.kind = "objects"
    /\ call.events > 3
    /\ call.dynamic_total > 10000

(***************************************************************************)
(* parse_array: the walk over the first-level slots and, for every slot    *)
(* that leads to a region, the batches of its parallel loop, taken by two  *)
(* rayon workers.  The walk is followed from the slot at offset `i`, the   *)
(* catalog holding `count` objects from the slots before it.  Reads of the *)
(* target are a thread's own work and belong to the step of the shared     *)
(* access that follows them; try_save_object is one step here, its own     *)
(* steps are those of the catalog above, and the progress events of the    *)
(* loop are those of the progress section.                                 *)
(***************************************************************************)
MAX_OBJECT_ARRAY == 4096
loop_step == 8
guobject_array_element_cnt == 32

\* the first-level table, the stride of the entries and where the objects lie
WalkFixture ==
    [base |-> 1048576, element_size |-> 24, level1 |-> 2097152, chunks |-> 4194304,
     objects |-> 16777216, object_size |-> 256, region_size |-> 4096, resume |-> 4064,
     bad_index |-> 2000]

\* what lies behind the first-level slot at an offset: nothing readable, a
\* value that is no pointer, a pointer to nothing, a pointer into no region,
\* or a pointer into a region of the second level
SlotKind(offset) ==
    IF offset \in {0, 4064, 4096} THEN "region"
    ELSE IF offset = 8 THEN "low"
    ELSE IF offset = 16 THEN "dangling"
    ELSE IF offset = 24 THEN "no_region"
    ELSE "unreadable"

\* the entries of a region's chunk: the indexes that hold an object, the one
\* that holds a value that is no pointer; the other indexes cannot be read
ObjectIndexes == {0, 1, 768, 769, 1536, 2304, 3840}

\* process.memory.read_pointer(base_address + i)
WalkLevel1(offset) ==
    CASE SlotKind(offset) = "unreadable" -> None
      [] SlotKind(offset) = "low" -> Some(MinPointer - 1)
      [] OTHER -> Some(WalkFixture.level1 + offset * 16)

\* process.memory.read_pointer(addr_level_1): the chunk of the region
WalkLevel2(addr_level_1) ==
    IF \E offset \in {0, 24, 4064, 4096} : addr_level_1 = WalkFixture.level1 + offset * 16
    THEN Some(WalkFixture.chunks + (addr_level_1 - WalkFixture.level1) * 4096)
    ELSE None

\* process.memory.get_memory_region_size(addr_level_1), 0 for its Err
WalkRegionSize(addr_level_1) ==
    IF \E offset \in {0, 4064, 4096} : addr_level_1 = WalkFixture.level1 + offset * 16
    THEN WalkFixture.region_size ELSE 0

\* the object behind entry `index` of the chunk at addr_level_2
ObjectAt(addr_level_2, index) ==
    WalkFixture.objects + (addr_level_2 - WalkFixture.chunks) + index * WalkFixture.object_size

\* process.memory.try_read_pointer(addr_level_2 + index * element_size)
WalkEntry(addr_level_2, index) ==
    IF index \in ObjectIndexes THEN Some(ObjectAt(addr_level_2, index))
    ELSE IF index = WalkFixture.bad_index THEN Some(0)
    ELSE None

\* element_size * guobject_array_element_cnt
guobject_array_batch_size == WalkFixture.element_size * guobject_array_element_cnt

\* (region_size as f64 / guobject_array_batch_size as f64 + 0.5).floor()
split_size(region_size) ==
    (2 * region_size + guobject_array_batch_size) \div (2 * guobject_array_batch_size)

OverLimit_never(n) == FALSE

\* "total_object_count.load(Ordering::Relaxed) > MAX_OBJECT_QUANTITY"
OverLimit(n) == n > MAX_OBJECT_QUANTITY

WalkWorkerIdle == [pc |-> "idle", batch |-> 0, i |-> 0, end |-> 0, late |-> 0]

\* the walk at the top of its while loop
WalkStart(i, n) ==
    [stage |-> "walk", i |-> i, count |-> n, saved |-> {}, region |-> 0,
     batches |-> 0, next |-> 0, w |-> [x \in ParseWorkers |-> WalkWorkerIdle],
     last_slot |-> -1, visits |-> {}]

WalkStarts ==
    {WalkStart(0, 0)}
    \cup {WalkStart(WalkFixture.resume, n) :
            n \in (MAX_OBJECT_QUANTITY - 6)..(MAX_OBJECT_QUANTITY + 1)}

WalkIdle == \A x \in ParseWorkers : call.w[x].pc = "idle"

ArrayStep(next_call) ==
    /\ call' = next_call
    /\ UNCHANGED <<ret, catalogVars, poolVars, sessVars, readerVars>>

\* the tests of the while loop on the slot at an offset: the region behind
\* it and the batches of its loop, or None for "i += loop_step; continue"
RegionBehind(offset) ==
    LET addr_level_1 == WalkLevel1(offset)
    IN  IF addr_level_1 = None THEN None
        ELSE IF addr_level_1[1] < MinPointer \/ WalkLevel2(addr_level_1[1]) = None THEN None
        ELSE IF WalkRegionSize(addr_level_1[1]) = 0 THEN None
        ELSE IF split_size(WalkRegionSize(addr_level_1[1])) = 0 THEN None
        ELSE Some([address |-> addr_level_1[1],
                   batches |-> split_size(WalkRegionSize(addr_level_1[1]))])

\* the slot at offset i gives no region to walk
SlotSkip ==
    /\ call.stage = "walk"
    /\ call.i < MAX_OBJECT_ARRAY
    /\ ~OverLimit(call.count)
    /\ RegionBehind(call.i) = None
    /\ ArrayStep([call EXCEPT !.i = @ + loop_step, !.last_slot = call.i])

\* the slot at offset i leads to a region: its parallel loop begins
SlotRegion ==
    /\ call.stage = "walk"
    /\ call.i < MAX_OBJECT_ARRAY
    /\ ~OverLimit(call.count)
    /\ RegionBehind(call.i) # None
    /\ \E found \in {RegionBehind(call.i)[1]} :
          ArrayStep([call EXCEPT !.stage = "loop", !.last_slot = call.i,
                                 !.region = found.address,
                                 !.batches = found.batches, !.next = 0])

\* a worker takes the next batch: given up when the catalog is over its
\* limit, else thread_search_all_object dereferences the first level
BatchStart(x) ==
    /\ call.stage = "loop"
    /\ call.w[x].pc = "idle"
    /\ call.next < call.batches
    /\ ArrayStep(
          IF OverLimit(call.count) \/ WalkLevel2(call.region) = None
          THEN [call EXCEPT !.next = @ + 1]
          ELSE [call EXCEPT !.next = @ + 1,
                            !.w[x] = [pc |-> "entry", batch |-> call.next,
                                      i |-> call.next * guobject_array_batch_size,
                                      end |-> call.next * guobject_array_batch_size
                                              + guobject_array_batch_size,
                                      late |-> 0]])

\* the indexes from i to end whose entry can be read
ReadableFrom(addr_level_2, i, end) ==
    {j \in (ObjectIndexes \cup {WalkFixture.bad_index}) : i <= j /\ j <= end /\ WalkEntry(addr_level_2, j) # None}

\* "for i in start..=end" up to its next try_save_object: the entries that
\* cannot be read are skipped, an entry that is no pointer ends the batch
BatchEntry(x) ==
    /\ call.w[x].pc = "entry"
    /\ \E addr_level_2 \in {WalkLevel2(call.region)[1]} :
       \E readable \in {ReadableFrom(addr_level_2, call.w[x].i, call.w[x].end)} :
          IF readable = {}
          THEN ArrayStep([call EXCEPT !.w[x] = WalkWorkerIdle])
          ELSE \E j \in {Min(readable)} :
               \E addr_level_3 \in {WalkEntry(addr_level_2, j)[1]} :
                  IF addr_level_3 < MinPointer
                  THEN ArrayStep([call EXCEPT !.w[x] = WalkWorkerIdle])
                  ELSE ArrayStep(
                         [call EXCEPT
                             !.saved = @ \cup {addr_level_3},
                             !.count = IF addr_level_3 \in call.saved THEN @ ELSE @ + 1,
                             !.visits = @ \cup {[slot |-> call.last_slot,
                                                 batch |-> call.w[x].batch, index |-> j]},
                             !.w[x].i = j,
                             !.w[x].late = @ + (IF call.count > MAX_OBJECT_QUANTITY
                                                THEN 1 ELSE 0),
                             !.w[x].pc = "check"])

\* the test that follows try_save_object
BatchCheck(x) ==
    /\ call.w[x].pc = "check"
    /\ ArrayStep(
          IF OverLimit(call.count)
          THEN [call EXCEPT !.w[x] = WalkWorkerIdle]
          ELSE [call EXCEPT !.w[x].i = @ + 1, !.w[x].pc = "entry"])

\* the parallel loop has joined its workers: "i += loop_step"
LoopJoin ==
    /\ call.stage = "loop"
    /\ WalkIdle
    /\ call.next = call.batches
    /\ ArrayStep([call EXCEPT !.stage = "walk", !.i = @ + loop_step,
                              !.region = 0, !.batches = 0, !.next = 0])

\* the while loop ends, at MAX_OBJECT_ARRAY or over the limit: Ok(final_count)
WalkReturn ==
    /\ call.stage = "walk"
    /\ ~(call.i < MAX_OBJECT_ARRAY) \/ OverLimit(call.count)
    /\ call' = [call EXCEPT !.stage = "done"]
    /\ ret' = Returns(call.count)
    /\ UNCHANGED <<catalogVars, poolVars, sessVars, readerVars>>

InitWalk ==
    /\ CatalogIdle
    /\ PoolIdle
    /\ SessionIdle
    /\ ReaderIdle
    /\ call \in WalkStarts
    /\ ret = NotCalled

NextWalk ==
    \/ SlotSkip
    \/ SlotRegion
    \/ \E x \in ParseWorkers : BatchStart(x)
    \/ \E x \in ParseWorkers : BatchEntry(x)
    \/ \E x \in ParseWorkers : BatchCheck(x)
    \/ LoopJoin
    \/ WalkReturn

\* the walker and the workers of the pool are threads that keep running
SpecWalk == InitWalk /\ [][NextWalk]_vars /\ WF_vars(NextWalk)

\* C31: parseObjects always terminates; while count is above 2,000,000 the
\* walker starts no further L1 slot and no worker a further batch, a running
\* batch makes at most the one try_save_object call it was about to make
\* before its test returns; and no L1 slot at an offset of 0x1000 or more
\* is ever read
C31_WalkStopsOverLimit ==
    /\ <>(ret # NotCalled)
    /\ [](/\ call.last_slot < MAX_OBJECT_ARRAY
          /\ \A x \in ParseWorkers : call.w[x].late <= 1)
    /\ [][call.count > MAX_OBJECT_QUANTITY =>
            /\ call'.last_slot = call.last_slot
            /\ call'.stage # "loop" \/ call.stage = "loop"
            /\ \A x \in ParseWorkers :
                  /\ call.w[x].pc = "idle" => call'.w[x].pc = "idle"
                  /\ call.w[x].pc = "check" => call'.w[x].pc \in {"check", "idle"}]_vars

\* the walk has returned with the count over the limit, reached while both
\* workers were in a batch, and with slots of the first level left unread
C31_Witness ==
    /\ ret # NotCalled
    /\ call.count > MAX_OBJECT_QUANTITY
    /\ call.last_slot < MAX_OBJECT_ARRAY - loop_step
    /\ \E v1, v2 \in call.visits : v1.batch # v2.batch /\ v1.slot = v2.slot

\* C35: within one L1 slot no element index is passed to try_save_object by
\* two different batches of the parallel loop
C35_BatchRangesDisjoint ==
    \A v1, v2 \in call.visits :
        (v1.slot = v2.slot /\ v1.index = v2.index) => v1.batch = v2.batch

(***************************************************************************)
(* Claims on the placeholder names of the catalog.                         *)
(***************************************************************************)
\* a step in which a try_save_object call returns
CallReturns ==
    \/ ncalls' # ncalls /\ th' = th
    \/ \E t \in Threads : th[t].pc = "count" /\ th'[t].pc = "idle"

\* C32: a try_save_object call whose record has the name "None" or
\* "InvalidName" returns that record, an empty name replaced by
\* "InvalidName", and leaves byAddress, byId and count unchanged
C32_PlaceholderReturnedNotCached ==
    [][(/\ CallReturns
        /\ last'.ret # None
        /\ last'.ret[1].name \in {sNone, sInvalidName})
       => /\ UNCHANGED catalog
          /\ last'.address \notin DOMAIN byAddress
                => /\ last'.ret[1] =
                        [GetBasicInfo(last'.address).obj EXCEPT
                            !.address = last'.address,
                            !.name = IF @ = <<>> THEN sInvalidName ELSE @]
                   /\ last'.ret[1].type_name # <<>>]_vars

\* the object whose name is empty has been returned as "InvalidName" while
\* the catalog holds other records, and it is not among them
C32_Witness ==
    /\ last.address = ObjNoName
    /\ last.ret # None
    /\ last.ret[1].name = sInvalidName
    /\ GetBasicInfo(ObjNoName).obj.name = <<>>
    /\ count > 0
    /\ ObjNoName \notin DOMAIN byAddress

\* C33: the outer walk never goes through a record named "None" or
\* "InvalidName": it holds no such outer as the parent it is about to
\* compose and continue from, and byAddress, which try_save_object never
\* gives such a record, does not get one from the walk either
C33_WalkStopsAtPlaceholderOuter ==
    /\ \A t \in Threads :
          th[t].pc = "shallow" => th[t].outer_obj.name \notin {sNone, sInvalidName}
    /\ \A a \in DOMAIN byAddress : byAddress[a].name \notin {sNone, sInvalidName}

\* C36: once byAddress holds the enriched record of an address, with its
\* fullName, no later write of a worker of the same parse replaces it with a
\* record whose fullName is empty
C36_EnrichedRecordKept ==
    [][\A a \in DOMAIN byAddress :
          (/\ byAddress[a].full_name # <<>>
           /\ a \in DOMAIN byAddress')
          => byAddress'[a].full_name # <<>>]_vars

(***************************************************************************)
(* find_pattern_in_buffer, statement by statement: the guard, the skip to  *)
(* the first byte, the check of the rest of the pattern and the push, over *)
(* every small buffer and pattern.  Offsets count from 0 as in the code,   *)
(* buffer[i] of the code is buffer[i + 1] here.                            *)
(***************************************************************************)
MaxBufLen == 4
MaxPatLen == 3

BufferBytes == {1, 2}

FindInputs ==
    [buffer : UNION {[1..n -> BufferBytes] : n \in 0..MaxBufLen},
     pattern : UNION {[1..n -> {None} \cup {Some(b) : b \in BufferBytes}] : n \in 0..MaxPatLen}]

\* "let mut matches = Vec::new()" and the call not yet entered
FindStart(input) ==
    [buffer |-> input.buffer, pattern |-> input.pattern, pc |-> "enter",
     i |-> 0, end |-> 0, matches |-> <<>>]

FindStep(next_call) ==
    /\ call' = next_call
    /\ UNCHANGED <<ret, catalogVars, poolVars, sessVars, readerVars>>

\* "if pattern.is_empty() || buffer.len() < pattern.len()", else the loop
\* is entered with i = 0 and end = buffer.len() - pattern.len()
FindEnter ==
    /\ call.pc = "enter"
    /\ FindStep(
          IF call.pattern = <<>> \/ Len(call.buffer) < Len(call.pattern)
          THEN [call EXCEPT !.pc = "return"]
          ELSE [call EXCEPT !.pc = "loop",
                            !.end = Len(call.buffer) - Len(call.pattern)])

\* "Fast skip finding the first byte": i moves to the next offset up to end
\* that holds the first byte; when there is none the outer loop is left
FindSkip ==
    /\ call.pc = "loop"
    /\ call.i <= call.end
    /\ FindStep(
          IF call.pattern[1] = None
          THEN [call EXCEPT !.pc = "check"]
          ELSE IF \E k \in call.i..call.end : call.buffer[k + 1] = call.pattern[1][1]
          THEN [call EXCEPT !.pc = "check",
                            !.i = Min({k \in call.i..call.end :
                                          call.buffer[k + 1] = call.pattern[1][1]})]
          ELSE [call EXCEPT !.pc = "return", !.i = call.end + 1])

\* "for j in 1..pattern.len()": the bytes after the first
RestMatches(buffer, pattern, i) ==
    \A j \in 1..(Len(pattern) - 1) :
        pattern[j + 1] = None \/ buffer[i + j + 1] = pattern[j + 1][1]

Advance_past_match(i, pattern, matched) == IF matched THEN i + Len(pattern) ELSE i + 1

\* "i += 1" at the end of an iteration
Advance(i, pattern, matched) == i + 1

\* the check of the rest of the pattern, the push and the step to the next
\* offset
FindCheck ==
    /\ call.pc = "check"
    /\ \E matched \in {RestMatches(call.buffer, call.pattern, call.i)} :
          FindStep([call EXCEPT
                       !.matches = IF matched THEN Append(@, call.i) ELSE @,
                       !.i = Advance(call.i, call.pattern, matched),
                       !.pc = "loop"])

\* the loop is over, or was never entered: "matches"
FindReturn ==
    /\ ret = NotCalled
    /\ call.pc = "return" \/ (call.pc = "loop" /\ call.i > call.end)
    /\ call' = [call EXCEPT !.pc = "done"]
    /\ ret' = Returns(call.matches)
    /\ UNCHANGED <<catalogVars, poolVars, sessVars, readerVars>>

InitFind ==
    /\ CatalogIdle
    /\ PoolIdle
    /\ SessionIdle
    /\ ReaderIdle
    /\ call \in {FindStart(input) : input \in FindInputs}
    /\ ret = NotCalled

NextFind ==
    \/ FindEnter
    \/ FindSkip
    \/ FindCheck
    \/ FindReturn

SpecFind == InitFind /\ [][NextFind]_vars

\* the offsets at which every byte of the pattern that is no wildcard equals
\* the byte of the buffer
MatchOffsets(buffer, pattern) ==
    {i \in 0..(Len(buffer) - Len(pattern)) :
        \A j \in 0..(Len(pattern) - 1) :
            pattern[j + 1] # None => buffer[i + j + 1] = pattern[j + 1][1]}

\* C34: for every buffer and every non-empty pattern the search returns
\* exactly the offsets i in 0..len(buffer) - len(pattern) at which every
\* non-wildcard pattern byte equals the buffer byte at i + j, in strictly
\* ascending order without duplicates, and nothing when the buffer is
\* shorter than the pattern
C34_ExactlyTheMatchingOffsets ==
    (ret # NotCalled /\ call.pattern # <<>>) =>
        /\ {ret[1][k] : k \in 1..Len(ret[1])} = MatchOffsets(call.buffer, call.pattern)
        /\ \A k \in 1..(Len(ret[1]) - 1) : ret[1][k] < ret[1][k + 1]
        /\ Len(call.buffer) < Len(call.pattern) => ret[1] = <<>>
        /\ ret[1] = find_pattern_in_buffer(call.buffer, call.pattern)

\* a pattern that starts with a wildcard has been found at two offsets whose
\* matches overlap
C34_Witness ==
    /\ ret # NotCalled
    /\ Len(call.pattern) = 3
    /\ call.pattern[1] = None
    /\ call.pattern[3] # None
    /\ Len(ret[1]) = 2
    /\ ret[1][2] = ret[1][1] + 1

(***************************************************************************)
(* parse_fname_pool followed by parse_guobject_array, as far as the string *)
(* offset of their name pools goes.  parse_pool hands the ids of the pool  *)
(* to get_name in batches taken by two rayon workers; what a thread reads  *)
(* from the target is its own work and belongs to the step of the access   *)
(* to a shared atomic that follows.  The progress events of the loop are   *)
(* those of the progress section.  string_offset is the offset of the pool *)
(* the running command has made with FNamePool::new.                       *)
(***************************************************************************)
\* a pool of one block: the entries of PoolPlain, and "Xy" at id 512, the
\* first id of the second batch
PoolTwoBatches ==
    PoolPlain @@ [a \in 1025..1028 |-> (HeaderBytes(2) \o <<88, 121>>)[a - 1024]]

\* the objects the array holds, each with the id of its class's name and
\* the id of its own name; get_basic_info_1 fails on them at its read of
\* the member type, so that get_basic_info_2 names them
PoolObjects ==
    {[address |-> ObjA, type_id |-> 512, name_id |-> 10],
     [address |-> ObjX, type_id |-> 3, name_id |-> 512],
     [address |-> ObjP, type_id |-> 15, name_id |-> 10]}

\* "for i in 0..500": the block pointers that are pointers to readable
\* memory, up to the third null in a row
RECURSIVE BlockLoop(_, _, _)
BlockLoop(i, valid_blocks, null_cnt) ==
    IF i >= 500 \/ null_cnt >= 3 THEN valid_blocks
    ELSE IF ReadBlockPointer(i) # None
         THEN BlockLoop(i + 1, valid_blocks + 1, 0)
         ELSE BlockLoop(i + 1, valid_blocks, null_cnt + 1)

\* "let total_names_capacity = valid_blocks << 0x10"
total_names_capacity == BlockLoop(0, 0, 0) * 65536

\* "(total_names_capacity + batch_size - 1) / batch_size"
num_batches == (total_names_capacity + batch_size - 1) \div batch_size

\* get_name: the address of the entry of an id and the length in its header
NameEntry(id) == OrZero(ReadBlockPointer(id \div 65536)) + (id % 65536) * 2

NameLength(mem, id) == OrZero(ReadU16(mem, NameEntry(id))) \div 64

\* get_name gets as far as its load of string_offset
ReachesLoad(mem, id) ==
    /\ ReadBlockPointer(id \div 65536) # None
    /\ ReadU16(mem, NameEntry(id)) # None
    /\ ~InvalidNameLength(NameLength(mem, id))

\* get_name from its load on, with the value it loaded and the value the
\* atomic holds at the compare_exchange: the result, the atomic afterwards,
\* and whether the call gave up on an offset that is not initialised
AfterLoad(mem, id, offset_val, current) ==
    LET hits == IF offset_val = OffsetUnset /\ RunsDiscovery(id, NameLength(mem, id))
                THEN ProbeHits(mem, NameEntry(id), NameLength(mem, id))
                ELSE {}
        used == IF hits # {} THEN Min(hits) ELSE offset_val
        str == IF used = OffsetUnset THEN None
               ELSE read_string(mem, NameEntry(id) + used, NameLength(mem, id))
    IN  [ok |-> str # None,
         str |-> IF str = None THEN <<>> ELSE str[1],
         string_offset |-> IF hits # {}
                           THEN compare_exchange(current, OffsetUnset, used)
                           ELSE current,
         unset |-> used = OffsetUnset]

\* get_name(id).unwrap_or_default() of a thread that runs alone
get_name(mem, offset, id) ==
    IF ReachesLoad(mem, id) THEN AfterLoad(mem, id, offset, offset)
    ELSE [ok |-> FALSE, str |-> <<>>, string_offset |-> offset, unset |-> FALSE]

PoolWorkerIdle == [pc |-> "idle", id |-> 0, end |-> 0, local_valid_names |-> 0,
                   offset_val |-> OffsetUnset]

\* parse_fname_pool after FNamePool::new and the count of the blocks
PoolParseStart ==
    [stage |-> "names", next |-> 0, valid_names_count |-> 0,
     w |-> [x \in ParseWorkers |-> PoolWorkerIdle],
     names_result |-> NotCalled, visited |-> {}, unvisited |-> {}]

\* the ids from id up to end that get as far as the load
Loading(mem, id, end) == {k \in id..(end - 1) : ReachesLoad(mem, k)}

PoolStep(next_call, next_offset) ==
    /\ call' = next_call
    /\ string_offset' = next_offset
    /\ UNCHANGED <<ret, gn, glast, pmem, ngets, catalogVars, sessVars, readerVars>>

\* a worker takes the next batch; a batch none of whose ids has a name of a
\* valid length goes straight to its valid_names_count.fetch_add(0)
NamesTake(x) ==
    /\ call.stage = "names"
    /\ call.w[x].pc = "idle"
    /\ call.next < num_batches
    /\ PoolStep(
          IF Loading(pmem, call.next * batch_size, call.next * batch_size + batch_size) = {}
          THEN [call EXCEPT !.next = @ + 1]
          ELSE [call EXCEPT !.next = @ + 1,
                            !.w[x] = [PoolWorkerIdle EXCEPT
                                         !.pc = "scan",
                                         !.id = call.next * batch_size,
                                         !.end = call.next * batch_size + batch_size]],
          string_offset)

\* "for id in start..end" up to the next call that loads string_offset
NamesLoad(x) ==
    /\ call.w[x].pc = "scan"
    /\ PoolStep(
          [call EXCEPT !.w[x].id = Min(Loading(pmem, call.w[x].id, call.w[x].end)),
                       !.w[x].offset_val = string_offset,
                       !.w[x].pc = "loaded"],
          string_offset)

\* the rest of that call, with the compare_exchange of a discovery, and
\* "local_valid_names += 1" when it returned Ok
NamesFinish(x) ==
    /\ call.w[x].pc = "loaded"
    /\ \E r \in {AfterLoad(pmem, call.w[x].id, call.w[x].offset_val, string_offset)} :
          PoolStep(
             [call EXCEPT
                 !.w[x].local_valid_names = IF r.ok THEN @ + 1 ELSE @,
                 !.w[x].id = @ + 1,
                 !.w[x].offset_val = OffsetUnset,
                 !.w[x].pc = IF Loading(pmem, call.w[x].id + 1, call.w[x].end) = {}
                             THEN "add" ELSE "scan"],
             r.string_offset)

\* valid_names_count.fetch_add(local_valid_names)
NamesAdd(x) ==
    /\ call.w[x].pc = "add"
    /\ PoolStep([call EXCEPT !.valid_names_count = @ + call.w[x].local_valid_names,
                             !.w[x] = PoolWorkerIdle],
                string_offset)

\* the loop has joined its workers: Ok((valid_blocks, final_count)), and
\* the pool of parse_fname_pool is dropped
NamesReturn ==
    /\ call.stage = "names"
    /\ call.next = num_batches
    /\ \A x \in ParseWorkers : call.w[x].pc = "idle"
    /\ PoolStep([call EXCEPT !.stage = "parsed",
                             !.names_result = Returns([valid_blocks |-> BlockLoop(0, 0, 0),
                                                       valid_names |-> call.valid_names_count,
                                                       string_offset |-> string_offset])],
                string_offset)

\* parse_guobject_array: "FNamePool::new(fname_pool_addr)" becomes the pool
\* of the session and of the walk
ObjectsBegin ==
    /\ call.stage = "parsed"
    /\ PoolStep([call EXCEPT !.stage = "objects", !.unvisited = PoolObjects], OffsetUnset)

\* try_save_object on an entry of the array: the name of the class, then
\* the name of the object; a record whose type name is empty is rejected
ObjectVisit(o) ==
    /\ call.stage = "objects"
    /\ o \in call.unvisited
    /\ \E type \in {get_name(pmem, string_offset, o.type_id)} :
       \E name \in {get_name(pmem, type.string_offset, o.name_id)} :
          PoolStep([call EXCEPT
                       !.unvisited = @ \ {o},
                       !.visited = @ \cup {[object |-> o,
                                            unset |-> type.unset \/ name.unset,
                                            rejected |-> RejectedType(type.str),
                                            name |-> IF name.str = <<>> THEN sInvalidName
                                                     ELSE name.str]}],
                   name.string_offset)

\* parse_array has walked the array
ObjectsReturn ==
    /\ call.stage = "objects"
    /\ call.unvisited = {}
    /\ call' = [call EXCEPT !.stage = "done"]
    /\ ret' = Returns(Cardinality({v \in call.visited :
                                     ~v.rejected /\ ~IsPlaceholderName(v.name)}))
    /\ UNCHANGED <<poolVars, catalogVars, sessVars, readerVars>>

InitPools ==
    /\ CatalogIdle
    /\ SessionIdle
    /\ ReaderIdle
    /\ string_offset = OffsetUnset
    /\ gn = [t \in {"w1", "w2"} |-> GnIdle]
    /\ glast = NoGet
    /\ pmem = PoolTwoBatches
    /\ ngets = 0
    /\ call = PoolParseStart
    /\ ret = NotCalled

NextPools ==
    \/ \E x \in ParseWorkers : NamesTake(x)
    \/ \E x \in ParseWorkers : NamesLoad(x)
    \/ \E x \in ParseWorkers : NamesFinish(x)
    \/ \E x \in ParseWorkers : NamesAdd(x)
    \/ NamesReturn
    \/ ObjectsBegin
    \/ \E o \in PoolObjects : ObjectVisit(o)
    \/ ObjectsReturn

SpecPools == InitPools /\ [][NextPools]_vars

\* the ids of the pool whose header lies in mapped memory
PoolIds == {id \in 0..(total_names_capacity - 1) : ReadU16(pmem, NameEntry(id)) # None}

\* C37: however the batches interleave with the discovery of S, the number
\* of valid names parse_pool reports is the number of ids in
\* [0, blocks << 16) for which get_name succeeds once S is committed
C37_ValidNamesIndependentOfInterleaving ==
    call.names_result # NotCalled =>
        /\ call.names_result[1].string_offset # OffsetUnset
        /\ call.names_result[1].valid_names =
              Cardinality({id \in PoolIds :
                              get_name(pmem, call.names_result[1].string_offset, id).ok})

\* C38: after parse_pool has completed, every get_name call of the
\* parse_array that follows finds the string offset committed, and no object
\* the walker visits is rejected over an offset that is not initialised
C38_OffsetCommittedForObjectsParse ==
    \A v \in call.visited :
        /\ ~v.unset
        /\ v.rejected =>
              ~get_name(pmem, call.names_result[1].string_offset, v.object.type_id).ok

(***************************************************************************)
(* The mutexes of AppState and the commands that lock them.  A command is  *)
(* the sequence of its lock() calls and of the drops of its guards: a      *)
(* guard bound to a name lives to the end of its block, a guard that is a  *)
(* temporary of a statement to the end of the statement.  Commands run on  *)
(* the threads of the async runtime, any of them at the same time.         *)
(***************************************************************************)
Mutexes == {"process", "name_pool", "base_addresses"}

CommandThreads == {"c1", "c2", "c3"}

lock(m) == [op |-> "lock", mutex |-> m]
drop(m) == [op |-> "drop", mutex |-> m]

\* the lock() and drop sequences of the commands, with those of their
\* early returns
Programs ==
    [attach_to_process |-> {<<lock("process"), drop("process")>>},
     get_ue_version |-> {<<lock("process"), drop("process")>>},
     get_fname_pool_address |->
        {<<lock("process"), drop("process")>>,
         <<lock("process"), lock("base_addresses"), drop("base_addresses"), drop("process")>>},
     get_guobject_array_address |->
        {<<lock("process"), drop("process")>>,
         <<lock("process"), lock("base_addresses"), drop("base_addresses"), drop("process")>>},
     get_gworld_address |->
        {<<lock("process"), drop("process")>>,
         <<lock("process"), lock("base_addresses"), drop("base_addresses"), drop("process")>>},
     show_base_address |->
        {<<lock("process"), drop("process")>>,
         <<lock("process"), lock("base_addresses"), drop("base_addresses"), drop("process")>>},
     parse_fname_pool |->
        {<<lock("process"), drop("process")>>,
         <<lock("process"), drop("process"), lock("base_addresses"), drop("base_addresses")>>},
     parse_guobject_array |->
        {<<lock("process"), drop("process")>>,
         <<lock("process"), drop("process"), lock("base_addresses"), drop("base_addresses")>>,
         <<lock("process"), drop("process"), lock("base_addresses"), drop("base_addresses"),
           lock("name_pool"), drop("name_pool")>>},
     get_packages |-> {<<>>},
     get_object_details |->
        {<<>>,
         <<lock("process"), drop("process")>>,
         <<lock("process"), lock("name_pool"), drop("name_pool"), drop("process")>>},
     global_search |->
        {<<lock("process"), drop("process"), lock("name_pool"), drop("name_pool")>>},
     search_object_instances |->
        {<<lock("process"), drop("process")>>,
         <<lock("process"), lock("name_pool"), drop("name_pool"), drop("process")>>},
     add_inspector |->
        {<<lock("process"), drop("process")>>,
         <<lock("process"), lock("name_pool"), drop("name_pool"), drop("process")>>},
     get_instance_details |->
        {<<lock("process"), drop("process")>>,
         <<lock("process"), lock("name_pool"), drop("name_pool"), drop("process")>>},
     analyze_fname |->
        {<<lock("process"), drop("process")>>,
         <<lock("process"), drop("process"), lock("name_pool"), drop("name_pool")>>}]

LockProgram_pool_first(cmd) ==
    IF cmd = "analyze_fname"
    THEN {<<lock("name_pool"), lock("process"), drop("process"), drop("name_pool")>>}
    ELSE Programs[cmd]

\* the sequences a command may run
LockProgram(cmd) == Programs[cmd]

Unlocked == "none"

\* a thread of the runtime with no command, and one inside a command
ThreadIdle == [busy |-> FALSE, program |-> <<>>, at |-> 1]

LocksStart ==
    [owner |-> [m \in Mutexes |-> Unlocked], t |-> [c \in CommandThreads |-> ThreadIdle]]

LockStep(next_call) ==
    /\ call' = next_call
    /\ UNCHANGED <<ret, catalogVars, poolVars, sessVars, readerVars>>

\* the frontend invokes a command
Invoke(c, cmd) ==
    /\ ~call.t[c].busy
    /\ \E program \in LockProgram(cmd) :
          LockStep([call EXCEPT !.t[c] = [busy |-> TRUE, program |-> program, at |-> 1]])

\* the next step of a running command, if it has one
NextOp(c) ==
    IF call.t[c].busy /\ call.t[c].at <= Len(call.t[c].program)
    THEN call.t[c].program[call.t[c].at]
    ELSE [op |-> "return", mutex |-> ""]

\* Mutex::lock: the thread blocks until the mutex is free
Lock(c) ==
    /\ NextOp(c).op = "lock"
    /\ call.owner[NextOp(c).mutex] = Unlocked
    /\ LockStep([call EXCEPT !.owner[NextOp(c).mutex] = c, !.t[c].at = @ + 1])

\* the guard goes out of scope
Drop(c) ==
    /\ NextOp(c).op = "drop"
    /\ LockStep([call EXCEPT !.owner[NextOp(c).mutex] = Unlocked, !.t[c].at = @ + 1])

\* the command returns
Return(c) ==
    /\ call.t[c].busy
    /\ NextOp(c).op = "return"
    /\ LockStep([call EXCEPT !.t[c] = ThreadIdle])

InitLocks ==
    /\ CatalogIdle
    /\ PoolIdle
    /\ SessionIdle
    /\ ReaderIdle
    /\ call = LocksStart
    /\ ret = NotCalled

NextLocks ==
    \/ \E c \in CommandThreads : \E cmd \in DOMAIN Programs : Invoke(c, cmd)
    \/ \E c \in CommandThreads : Lock(c)
    \/ \E c \in CommandThreads : Drop(c)
    \/ \E c \in CommandThreads : Return(c)

SpecLocks == InitLocks /\ [][NextLocks]_vars

\* the mutexes a thread holds
Held(c) == {m \in Mutexes : call.owner[m] = c}

\* the thread is inside lock() on a mutex another thread (or itself) holds
Blocked(c) == NextOp(c).op = "lock" /\ call.owner[NextOp(c).mutex] # Unlocked

\* C39: no reachable state has a cycle of commands each waiting for a
\* session mutex that the next one holds, and a command that calls lock()
\* while it holds a mutex holds the process mutex only and asks for another
C39_NoDeadlockProcessFirst ==
    /\ \A waiting \in SUBSET CommandThreads :
          waiting # {} =>
             \E c \in waiting :
                ~(Blocked(c) /\ call.owner[NextOp(c).mutex] \in waiting)
    /\ \A c \in CommandThreads :
          (NextOp(c).op = "lock" /\ Held(c) # {})
          => Held(c) = {"process"} /\ NextOp(c).mutex # "process"

\* a command that holds the process mutex waits for the name pool that a
\* second command holds, while a third waits for the process mutex
C39_Witness ==
    \E c1, c2, c3 \in CommandThreads :
        /\ Held(c1) = {"process"}
        /\ Blocked(c1) /\ NextOp(c1).mutex = "name_pool"
        /\ call.owner["name_pool"] = c2
        /\ Blocked(c3) /\ NextOp(c3).mutex = "process"

(***************************************************************************)
(* get_object_details up to its inheritance list: the walk along the       *)
(* SuperStruct pointers of the target, one step per iteration of its       *)
(* while loop.  The target holds three structs whose SuperStruct cells are *)
(* the input; of the list the model keeps the first MaxChain items, and of *)
(* the number of iterations its parity (turn).                             *)
(***************************************************************************)
MaxChain == 4

\* offsets.super_struct
OffSuperStruct == 64

Structs == {ObjK, ObjL, ObjM}

\* the SuperStruct cell of each struct: null, a value that is no pointer, a
\* struct, or an unmapped cell (None)
SuperCells == [Structs -> {None} \cup {Some(v) : v \in {0, ObjLow} \cup Structs}]

InheritInputs ==
    [address : Structs, cells : SuperCells, cached : {Structs, {ObjK, ObjL}}]

\* process.memory.try_read_pointer on the cells of the input
InheritReadPointer(cells, a) ==
    IF \E o \in Structs : a = o + OffSuperStruct
    THEN cells[a - OffSuperStruct]
    ELSE None

\* the first MaxChain items of a list that has grown by one item
Pushed(list, item) == IF Len(list) < MaxChain THEN Append(list, item) ELSE list

Reverse(list) == [k \in 1..Len(list) |-> list[Len(list) + 1 - k]]

InheritStep(next_call) ==
    /\ call' = next_call
    /\ UNCHANGED <<ret, catalogVars, poolVars, sessVars, readerVars>>

\* the lookup of the address and the first read of its SuperStruct
DetailsEnter ==
    /\ call.pc = "enter"
    /\ IF call.address \notin call.cached
       THEN /\ call' = [call EXCEPT !.pc = "done"]
            /\ ret' = Returns([ok |-> FALSE, inheritance |-> <<>>])
            /\ UNCHANGED <<catalogVars, poolVars, sessVars, readerVars>>
       ELSE InheritStep(
               [call EXCEPT !.pc = "loop",
                            !.super_addr = OrZero(InheritReadPointer(call.cells,
                                                     call.address + OffSuperStruct))])

\* an iteration of "while super_addr > 0x10000" on a cached struct
SuperStep ==
    /\ call.pc = "loop"
    /\ call.super_addr > MinPointer
    /\ call.super_addr \in call.cached
    /\ InheritStep(
          [call EXCEPT !.inheritance = Pushed(@, call.super_addr),
                       !.turn = 1 - @,
                       !.super_addr = OrZero(InheritReadPointer(call.cells,
                                                call.super_addr + OffSuperStruct))])

\* the loop ends, at a null or at a struct that is not cached: the list is
\* reversed and returned
DetailsReturn ==
    /\ call.pc = "loop"
    /\ ~(call.super_addr > MinPointer) \/ call.super_addr \notin call.cached
    /\ call' = [call EXCEPT !.pc = "done"]
    /\ ret' = Returns([ok |-> TRUE, inheritance |-> Reverse(call.inheritance)])
    /\ UNCHANGED <<catalogVars, poolVars, sessVars, readerVars>>

InitInherit ==
    /\ CatalogIdle
    /\ PoolIdle
    /\ SessionIdle
    /\ ReaderIdle
    /\ call \in {[address |-> input.address, cells |-> input.cells, cached |-> input.cached,
                  pc |-> "enter", super_addr |-> 0, inheritance |-> <<>>, turn |-> 0] :
                    input \in InheritInputs}
    /\ ret = NotCalled

NextInherit ==
    \/ DetailsEnter
    \/ SuperStep
    \/ DetailsReturn

\* the thread of the command keeps running
SpecInherit == InitInherit /\ [][NextInherit]_vars /\ WF_vars(NextInherit)

\* C40: get_object_details terminates for every cached address and every
\* content of the target, also when the SuperStruct pointers of cached
\* structs form a cycle
C40_DetailsTerminates == <>(ret # NotCalled)

====
